---- MODULE Spec2Model ----
(***************************************************************************)
(* finLine LBO analysis engine: one run of run_lbo_analysis                *)
(* (backend/engine/lbo.py) as a state machine: the extractor, the two      *)
(* checks, sources and uses, the first-pass cash flows, the debt waterfall *)
(* of backend/engine/debt.py, the re-taxed cash flows, the leverage        *)
(* metrics, the returns and the result.                                    *)
(*                                                                         *)
(* Numbers.  The engine computes in floating point; the model computes in  *)
(* exact fixed point.  An amount is an integer number of 1/Scale currency  *)
(* units, a rate is an integer number of percent.  The inputs are chosen   *)
(* so that every product the engine forms is a whole number of units: the  *)
(* amounts are multiples of Scale = 100 * 8^NumYears, applicable interest  *)
(* and PIK rates are 0 or 50 percent, tax rates 25 or 50 percent, fees a   *)
(* whole number of percent.                                                *)
(*                                                                         *)
(* Ratios.  A quotient n / d is the pair [num, den]; the literal 0 the     *)
(* code substitutes behind a guard is the pair [0, 1].  The IRR            *)
(* moic ** (1 / holding_period) - 1 is the triple [num, den, root].        *)
(*                                                                         *)
(* Strings.  An amortization string is the sequence of its "/"-separated   *)
(* parts; a part is [digits, suffix]: the decimal number it starts with    *)
(* and the text that follows it.  float(part) succeeds exactly when the    *)
(* suffix is empty.                                                        *)
(***************************************************************************)
EXTENDS Integers, Sequences, FiniteSets, TLC

\* ---------------------------------------------------------------- bounds
NumYears == 2
MaxNonRevolver == 2

\* ------------------------------------------------------------- constants
DealYear == 2024
max_iterations == 10
ThresholdPerUnit == 100

Scale == 100 * 8 ^ NumYears
ExitYear == DealYear + NumYears

\* ---------------------------------------------------------------- helpers
Max(a, b) == IF a >= b THEN a ELSE b
Min(a, b) == IF a <= b THEN a ELSE b
Abs(a) == IF a < 0 THEN -a ELSE a

\* x * p percent
PctOf(x, p) == (x * p) \div 100

\* dict.get(k, default), d[k] = v
Get(d, k, default) == IF k \in DOMAIN d THEN d[k] ELSE default
Put(d, k, v) == [x \in (DOMAIN d) \cup {k} |-> IF x = k THEN v ELSE d[x]]
EmptyDict == [x \in {} |-> 0]

RECURSIVE Gcd(_, _)
Gcd(a, b) == IF b = 0 THEN a ELSE Gcd(b, a % b)

RECURSIVE SumSeq(_)
SumSeq(s) == IF s = <<>> THEN 0 ELSE Head(s) + SumSeq(Tail(s))

\* str.lower() on the tranche types of the inputs
Lower(s) ==
    CASE s = "RCF" -> "rcf"
      [] s = "Revolver" -> "revolver"
      [] s = "Bond" -> "bond"
      [] OTHER -> s

\* Python's order on the labels of the inputs
\* ("A" < "B" < "C" < "Debt Tranche" < "M" < "Mezz" < "N" < "RCF" < "Senior"
\* < "X" < "Z")
LabelRank(l) ==
    CASE l = "A" -> 1
      [] l = "B" -> 2
      [] l = "C" -> 3
      [] l = "Debt Tranche" -> 4
      [] l = "M" -> 5
      [] l = "Mezz" -> 6
      [] l = "N" -> 7
      [] l = "Senior" -> 9
      [] l = "X" -> 10
      [] l = "Z" -> 11
      [] OTHER -> 8

\* ------------------------------------------------------ amortization text
Num(n) == [digits |-> n, suffix |-> ""]
EmptyStr == <<>>

\* f"{rate * 100:.0f}% annual" (rate given in percent)
FormatAnnual(rate) == << [digits |-> rate, suffix |-> "% annual"] >>

\* -------------------------------------------------------------- extractor
\* tranche_data.get(k, default)
Field(td, k, default) == IF k \in DOMAIN td THEN td[k] ELSE default

\* x or y: the first truthy value
TrancheTypeOf(td) ==
    IF Field(td, "tranche_type", "") # "" THEN td["tranche_type"]
    ELSE Field(td, "type", "Bond")

IsFloatingType(ty) ==
    Lower(ty) \in {"loan", "syndicated loan", "revolver", "rcf", "frn", "term_loan"}

PercentageDrawnOf(td) ==
    IF "percentage_drawn_at_deal_date" \in DOMAIN td
    THEN td["percentage_drawn_at_deal_date"]
    ELSE IF Lower(TrancheTypeOf(td)) \in {"revolver", "rcf"} THEN 0 ELSE 100

InterestRateOf(td) ==
    IF Field(td, "interest_rate", 0) # 0 THEN td["interest_rate"]
    ELSE IF Field(td, "interest_margin", 0) # 0 THEN td["interest_margin"]
    ELSE Field(td, "cash_interest_rate", 0)

OriginalSizeOf(td) ==
    IF Field(td, "original_size", 0) # 0 THEN td["original_size"]
    ELSE IF Field(td, "amount", 0) # 0 THEN td["amount"]
    ELSE IF Field(td, "size", 0) # 0 THEN td["size"]
    ELSE 0

LabelOf(td) ==
    IF Field(td, "label", "") # "" THEN td["label"]
    ELSE IF Field(td, "name", "") # "" THEN td["name"]
    ELSE "Debt Tranche"

AmortizationOf(td) ==
    LET amortization ==
            IF Field(td, "amortization_schedule", EmptyStr) # EmptyStr
            THEN td["amortization_schedule"]
            ELSE Field(td, "amortization", EmptyStr)
    IN  IF amortization = EmptyStr /\ "amortization_rate" \in DOMAIN td
        THEN IF td["amortization_rate"] > 0
             THEN FormatAnnual(td["amortization_rate"])
             ELSE EmptyStr
        ELSE amortization

\* financing_fees: float = 0.01, in percent
FinancingFeesDefault == 1

\* DebtTranche(...) with __post_init__
DebtTranche(td) ==
    [ label |-> LabelOf(td),
      tranche_type |-> TrancheTypeOf(td),
      original_size |-> OriginalSizeOf(td),
      interest_rate |-> InterestRateOf(td),
      interest_margin |-> Field(td, "interest_margin", 0),
      pik_interest_rate |-> Field(td, "pik_interest_rate", 0),
      amortization_schedule |-> AmortizationOf(td),
      amortization_rate |-> Field(td, "amortization_rate", 0),
      financing_fees |-> Field(td, "financing_fees", FinancingFeesDefault),
      repayment_seniority |-> Field(td, "repayment_seniority", 1),
      is_floating_rate |-> IsFloatingType(TrancheTypeOf(td)),
      percentage_drawn_at_deal_date |-> PercentageDrawnOf(td),
      drawn_amount |-> PctOf(OriginalSizeOf(td), PercentageDrawnOf(td)),
      financing_fee_amount |->
          PctOf(OriginalSizeOf(td), Field(td, "financing_fees", FinancingFeesDefault)) ]

extract_debt_structure(tds) == [i \in 1..Len(tds) |-> DebtTranche(tds[i])]

\* ------------------------------------------------- first-pass cash flows
\* FinFigs.get_value
get_value(series, year) == Get(series, year, 0)

\* the running prev_wc before the year at index i of years
RECURSIVE PrevWc(_, _, _)
PrevWc(fd, years, i) ==
    IF "working_capital" \notin DOMAIN fd THEN 0
    ELSE IF i = 1 THEN get_value(fd["working_capital"], years[1] - 1)
    ELSE LET before == PrevWc(fd, years, i - 1)
             current_wc == get_value(fd["working_capital"], years[i - 1])
         IN  IF current_wc # 0 \/ before # 0 THEN current_wc ELSE before

YearCashFlow(fd, tax_rate, years, i) ==
    LET year == years[i]
        ebitda == IF "ebitda" \in DOMAIN fd THEN get_value(fd["ebitda"], year) ELSE 0
        d_and_a == IF "d_and_a" \in DOMAIN fd THEN get_value(fd["d_and_a"], year) ELSE 0
        ebit == IF "ebit" \in DOMAIN fd THEN get_value(fd["ebit"], year)
                ELSE ebitda - d_and_a
        cash_taxes == Max(0, PctOf(ebit, tax_rate))
        capex0 == IF "capex" \in DOMAIN fd THEN get_value(fd["capex"], year) ELSE 0
        capex == IF capex0 > 0 THEN -capex0 ELSE capex0
        prev_wc == PrevWc(fd, years, i)
        current_wc == IF "working_capital" \in DOMAIN fd
                      THEN get_value(fd["working_capital"], year) ELSE 0
        change_wc == IF "working_capital" \in DOMAIN fd
                        /\ (current_wc # 0 \/ prev_wc # 0)
                     THEN current_wc - prev_wc ELSE 0
        unlevered_fcf == ebitda + (-cash_taxes) + capex + (-change_wc)
    IN  [ ebitda |-> ebitda, ebit |-> ebit, d_and_a |-> d_and_a,
          cash_taxes |-> -cash_taxes, capex |-> capex, change_wc |-> -change_wc,
          unlevered_fcf |-> unlevered_fcf, cash_interest |-> 0,
          fcf |-> unlevered_fcf, cfads |-> unlevered_fcf ]

\* years = range(deal_year + 1, exit_year + 1)
calculate_annual_cash_flows(fd, tax_rate, years) ==
    [y \in {years[i] : i \in DOMAIN years} |->
        YearCashFlow(fd, tax_rate, years, y - years[1] + 1)]

\* ------------------------------------------------------ debt schedule tracker
ReferenceRate == 2

IsRevolverType(ty) == Lower(ty) \in {"revolver", "revolving credit facility", "rcf"}

Labels(dts) == {dts[i].label : i \in DOMAIN dts}

\* a later tranche of the same label replaces the schedule of an earlier one
TrancheOf(dts, l) ==
    dts[CHOOSE i \in DOMAIN dts :
            /\ dts[i].label = l
            /\ \A j \in DOMAIN dts : dts[j].label = l => j <= i]

\* DebtScheduleTracker.__init__
NewSchedule(t) ==
    [ type |-> t.tranche_type,
      starting_balance |-> t.drawn_amount,
      original_size |-> t.original_size,
      is_revolver |-> IsRevolverType(t.tranche_type),
      is_floating |-> t.is_floating_rate,
      interest_margin |-> IF t.is_floating_rate THEN t.interest_margin ELSE 0,
      cash_interest_rate |-> t.interest_rate,
      pik_interest_rate |-> t.pik_interest_rate,
      amortization |-> t.amortization_schedule,
      repayment_seniority |-> t.repayment_seniority,
      balances |-> EmptyDict,
      principal_payments |-> EmptyDict,
      interest_expense |-> EmptyDict,
      pik_interest |-> EmptyDict,
      revolver_draws |-> EmptyDict ]

NewSchedules(dts) == [l \in Labels(dts) |-> NewSchedule(TrancheOf(dts, l))]

\* index in debt_tranches of revolver_tranche, 0 for None
RevolverIndex(dts, sch) ==
    IF \E i \in DOMAIN dts : sch[dts[i].label].is_revolver
    THEN CHOOSE i \in DOMAIN dts :
            /\ sch[dts[i].label].is_revolver
            /\ \A j \in DOMAIN dts : sch[dts[j].label].is_revolver => i <= j
    ELSE 0

_calculate_interest_rate(tranche, year) ==
    IF tranche.is_floating_rate
    THEN ReferenceRate + tranche.interest_margin
    ELSE tranche.interest_rate

\* float(part) / 100 per part, 0 for a part that is no number; in percent
_get_amortization_schedule(tranche) ==
    LET str == tranche.amortization_schedule
    IN  IF str = EmptyStr \/ str = << Num(0) >> THEN << >>
        ELSE [i \in DOMAIN str |->
                IF str[i].suffix = "" THEN str[i].digits ELSE 0]

\* sorted(..., key=(repayment_seniority, label))
Before(a, b) ==
    \/ a.repayment_seniority < b.repayment_seniority
    \/ /\ a.repayment_seniority = b.repayment_seniority
       /\ LabelRank(a.label) < LabelRank(b.label)

SortTranchesUnsorted(ts) == ts

RECURSIVE SortTranches(_)
SortTranches(ts) ==
    IF ts = << >> THEN << >>
    ELSE LET m == CHOOSE i \in DOMAIN ts :
                    \A j \in DOMAIN ts : j # i =>
                        \/ Before(ts[i], ts[j])
                        \/ (~Before(ts[j], ts[i]) /\ i < j)
             rest == [k \in 1..(Len(ts) - 1) |-> IF k < m THEN ts[k] ELSE ts[k + 1]]
         IN  << ts[m] >> \o SortTranches(rest)

NonRcfTranches(dts, sch) ==
    SortTranches(SelectSeq(dts, LAMBDA t : ~sch[t.label].is_revolver))

BeginningBalance(sch, l, year) ==
    Get(sch[l].balances, year - 1, sch[l].starting_balance)

\* STEP 1: interest on the balance at the end of the previous year
CashInterestOf(sch, t, year) ==
    PctOf(BeginningBalance(sch, t.label, year), _calculate_interest_rate(t, year))

\* PIK interest that does not compound
PikInterestOnOriginal(sch, t, year) == PctOf(t.original_size, t.pik_interest_rate)

PikInterestOf(sch, t, year) ==
    PctOf(BeginningBalance(sch, t.label, year), t.pik_interest_rate)

AccrueInterest(sch, dts, year) ==
    [l \in DOMAIN sch |->
        LET t == TrancheOf(dts, l)
        IN  IF BeginningBalance(sch, l, year) > 0
            THEN [sch[l] EXCEPT
                    !.interest_expense = Put(@, year, CashInterestOf(sch, t, year)),
                    !.pik_interest = Put(@, year, PikInterestOf(sch, t, year))]
            ELSE sch[l]]

TotalCashInterest(sch, dts, year) ==
    SumSeq([i \in DOMAIN dts |->
        IF BeginningBalance(sch, dts[i].label, year) > 0
        THEN CashInterestOf(sch, dts[i], year) ELSE 0])

TotalPikInterest(sch, dts, year) ==
    SumSeq([i \in DOMAIN dts |->
        IF BeginningBalance(sch, dts[i].label, year) > 0
        THEN PikInterestOf(sch, dts[i], year) ELSE 0])

\* STEP 2: PIK interest is added to every tranche but the revolver
ApplyPik(sch, dts, rev, year) ==
    [l \in DOMAIN sch |->
        IF rev # 0 /\ TrancheOf(dts, l) = dts[rev] THEN sch[l]
        ELSE [sch[l] EXCEPT !.balances =
                Put(@, year, BeginningBalance(sch, l, year)
                             + Get(sch[l].pik_interest, year, 0))]]

\* STEP 3: taxes and CFADS of the iteration
\* the first-pass taxes, not reduced by the interest
IterationTaxesOnEbit(cf, total_interest) == Abs(cf.cash_taxes)

\* the effective rate initial_tax / ebit is kept in lowest terms
IterationTaxes(cf, total_interest) ==
    LET initial_tax == Abs(cf.cash_taxes)
        pbt == cf.ebit - total_interest
        g == Gcd(initial_tax, cf.ebit)
    IN  Max(0, IF cf.ebit > 0
               THEN (pbt * (initial_tax \div g)) \div (cf.ebit \div g)
               ELSE PctOf(pbt, 25))

Cfads(cf, total_cash_interest, total_pik_interest) ==
    cf.ebitda - total_cash_interest
        - IterationTaxes(cf, total_cash_interest + total_pik_interest)
        + cf.capex + cf.change_wc

\* STEP 4: mandatory amortization of the year, by label
MandatoryAmountUnclipped(sch, t, year, year_idx) ==
    PctOf(t.original_size, _get_amortization_schedule(t)[year_idx + 1])

MandatoryAmount(sch, t, year, year_idx) ==
    LET amort_schedule == _get_amortization_schedule(t)
    IN  Min(PctOf(t.original_size, amort_schedule[year_idx + 1]),
            Get(sch[t.label].balances, year, 0))

MandatoryByTranche(sch, order, year, year_idx) ==
    LET due == {i \in DOMAIN order :
                    year_idx < Len(_get_amortization_schedule(order[i]))}
    IN  [l \in {order[i].label : i \in due} |->
            MandatoryAmount(sch, TrancheOf(order, l), year, year_idx)]

ZeroPayments == [mandatory |-> 0, sweep |-> 0, total |-> 0]

ResetPayments(sch, year) ==
    [l \in DOMAIN sch |->
        [sch[l] EXCEPT !.principal_payments = Put(@, year, ZeroPayments)]]

\* STEP 5: mandatory payments in seniority order; w = [sch, remaining_cash,
\* rcf_draw_needed]
RECURSIVE PayMandatory(_, _, _, _, _)
PayMandatory(w, order, i, mandatory_by_tranche, year) ==
    IF i > Len(order) THEN w
    ELSE LET l == order[i].label
             mandatory_due == Get(mandatory_by_tranche, l, 0)
             paid == [w.sch EXCEPT
                        ![l].principal_payments[year].mandatory = mandatory_due,
                        ![l].balances[year] = @ - mandatory_due]
         IN  IF mandatory_due <= 0
             THEN PayMandatory(w, order, i + 1, mandatory_by_tranche, year)
             ELSE IF w.remaining_cash >= mandatory_due
             THEN PayMandatory(
                    [w EXCEPT !.sch = paid,
                              !.remaining_cash = @ - mandatory_due],
                    order, i + 1, mandatory_by_tranche, year)
             ELSE PayMandatory(
                    [w EXCEPT !.sch = paid,
                              !.rcf_draw_needed =
                                  @ + (mandatory_due - Max(0, w.remaining_cash)),
                              !.remaining_cash = 0],
                    order, i + 1, mandatory_by_tranche, year)

\* a draw limited to the undrawn part of the facility
ApplyRcfDrawCapped(w, rl, year) ==
    LET opening == Get(w.sch[rl].balances, year - 1, 0)
        draw == Min(w.rcf_draw_needed, Max(0, w.sch[rl].original_size - opening))
    IN  [w EXCEPT !.sch[rl] =
            [@ EXCEPT
                !.balances = Put(@, year, opening + draw),
                !.revolver_draws = Put(@, year, draw),
                !.principal_payments = Put(@, year,
                    [mandatory |-> 0, sweep |-> 0, total |-> -draw])]]

\* the revolver is drawn for the whole shortfall
ApplyRcfDraw(w, rl, year) ==
    [w EXCEPT !.sch[rl] =
        [@ EXCEPT
            !.balances = Put(@, year, Get(w.sch[rl].balances, year - 1, 0)
                                      + w.rcf_draw_needed),
            !.revolver_draws = Put(@, year, w.rcf_draw_needed),
            !.principal_payments = Put(@, year,
                [mandatory |-> 0, sweep |-> 0, total |-> -w.rcf_draw_needed])]]

\* STEP 6, first: pay down the revolver
RcfRepaymentUncapped(remaining_cash, current_rcf) == remaining_cash

RcfRepayment(remaining_cash, current_rcf) == Min(remaining_cash, current_rcf)

SweepRevolver(w, rl, year) ==
    LET opening_rcf == Get(w.sch[rl].balances, year - 1, 0)
        current_rcf == Get(w.sch[rl].balances, year, opening_rcf)
        rcf_repayment == RcfRepayment(w.remaining_cash, current_rcf)
    IN  IF current_rcf > 0
        THEN [w EXCEPT
                !.sch[rl] = [@ EXCEPT
                    !.balances = Put(@, year, current_rcf - rcf_repayment),
                    !.principal_payments[year].sweep = rcf_repayment,
                    !.principal_payments[year].total = @ + rcf_repayment],
                !.remaining_cash = @ - rcf_repayment]
        ELSE w

\* STEP 6, then: sweep the other tranches in seniority order
SweepAmountUncapped(remaining_cash, current_balance) == remaining_cash

SweepAmountNone(remaining_cash, current_balance) == 0

SweepAmount(remaining_cash, current_balance) == Min(remaining_cash, current_balance)

RECURSIVE SweepTranches(_, _, _, _)
SweepTranches(w, order, i, year) ==
    IF i > Len(order) \/ w.remaining_cash <= 0 THEN w
    ELSE LET l == order[i].label
             current_balance == Get(w.sch[l].balances, year, 0)
             sweep_amount == SweepAmount(w.remaining_cash, current_balance)
         IN  IF current_balance > 0
             THEN SweepTranches(
                    [w EXCEPT
                        !.sch[l].principal_payments[year].sweep = sweep_amount,
                        !.sch[l].principal_payments[year].total = @ + sweep_amount,
                        !.sch[l].balances[year] = @ - sweep_amount,
                        !.remaining_cash = @ - sweep_amount],
                    order, i + 1, year)
             ELSE SweepTranches(w, order, i + 1, year)

\* STEP 7: a revolver without activity carries its balance forward
CarryRevolver(sch, rl, year) ==
    IF year \notin DOMAIN sch[rl].balances
    THEN [sch EXCEPT ![rl] = [@ EXCEPT
            !.balances = Put(@, year, Get(sch[rl].balances, year - 1, 0)),
            !.principal_payments = Put(@, year, ZeroPayments)]]
    ELSE sch

\* STEP 8: total = mandatory + sweep, for every tranche
PaymentTotal(payments) == payments.mandatory + payments.sweep

UpdateTotals(sch, year) ==
    [l \in DOMAIN sch |->
        IF year \in DOMAIN sch[l].principal_payments
        THEN [sch[l] EXCEPT !.principal_payments[year].total =
                PaymentTotal(sch[l].principal_payments[year])]
        ELSE sch[l]]

\* STEP 9: cash used by principal payments
CashUsedBy(s, year) ==
    IF year \in DOMAIN s.principal_payments
    THEN IF s.is_revolver THEN -s.principal_payments[year].total
         ELSE s.principal_payments[year].total
    ELSE 0

TotalCashUsed(sch, dts, year) ==
    SumSeq([i \in DOMAIN dts |-> CashUsedBy(sch[dts[i].label], year)])

\* one pass of the loop body of calculate_schedules (STEP 1 to STEP 9)
Iteration(sch0, dts, cf, year, year_idx, prev_cash, minimum_cash, cash_sweep_enabled) ==
    LET rev == RevolverIndex(dts, sch0)
        rl == IF rev # 0 THEN dts[rev].label ELSE ""
        total_cash_interest == TotalCashInterest(sch0, dts, year)
        total_pik_interest == TotalPikInterest(sch0, dts, year)
        sch1 == AccrueInterest(sch0, dts, year)
        sch2 == ApplyPik(sch1, dts, rev, year)
        cfads == Cfads(cf, total_cash_interest, total_pik_interest)
        available_for_debt == prev_cash + cfads - minimum_cash
        non_rcf_tranches == NonRcfTranches(dts, sch2)
        mandatory_by_tranche == MandatoryByTranche(sch2, non_rcf_tranches, year, year_idx)
        total_mandatory ==
            SumSeq([i \in DOMAIN non_rcf_tranches |->
                Get(mandatory_by_tranche, non_rcf_tranches[i].label, 0)])
        w5 == PayMandatory(
                [sch |-> ResetPayments(sch2, year),
                 remaining_cash |-> available_for_debt,
                 rcf_draw_needed |-> 0],
                non_rcf_tranches, 1, mandatory_by_tranche, year)
        w5b == IF rev # 0 /\ w5.rcf_draw_needed > 0
               THEN ApplyRcfDraw(w5, rl, year) ELSE w5
        w6a == IF rev # 0 /\ w5b.rcf_draw_needed = 0
               THEN SweepRevolver(w5b, rl, year) ELSE w5b
        w6 == IF cash_sweep_enabled /\ w5b.remaining_cash > 0
              THEN SweepTranches(w6a, non_rcf_tranches, 1, year)
              ELSE w5b
        sch7 == IF rev # 0 THEN CarryRevolver(w6.sch, rl, year) ELSE w6.sch
        sch8 == UpdateTotals(sch7, year)
    IN  [ sch |-> sch8,
          cash |-> prev_cash + cfads - TotalCashUsed(sch8, dts, year),
          total_cash_interest |-> total_cash_interest,
          total_pik_interest |-> total_pik_interest,
          cfads |-> cfads,
          available_for_debt |-> available_for_debt,
          total_mandatory |-> total_mandatory,
          cash_after_mandatory |-> w5.remaining_cash,
          rcf_draw_needed |-> w5.rcf_draw_needed,
          remaining_cash |-> w6.remaining_cash ]

\* ------------------------------------------------------- ratios
\* n / d as the code forms it, and the literal 0 it substitutes
Div(n, d) == [num |-> n, den |-> d]
Zero == [num |-> 0, den |-> 1]
ZeroIrr == [num |-> 1, den |-> 1, root |-> 1]

RECURSIVE SumFn(_)
\* sum(d.values())
SumFn(d) ==
    IF DOMAIN d = {} THEN 0
    ELSE LET k == CHOOSE x \in DOMAIN d : TRUE
         IN  d[k] + SumFn([x \in (DOMAIN d) \ {k} |-> d[x]])

\* ------------------------------------------- extractor: the case of the document
CasesInDocument == {"base_case"}
EntryFeeDefault == 2
ExitFeeDefault == 2
TaxRateDefault == 25
ExitYearDefault == 2029

\* self.cases.get(case_id, {}) is not empty
HasCase(p) == p.case_id \in CasesInDocument

\* case_data.get("deal_parameters", {}).get(k, default)
DealField(p, k, default) == IF HasCase(p) /\ k \in DOMAIN p THEN p[k] ELSE default

\* a series is a FinFigs as soon as its key is in the income statement, with
\* no data when the list is empty
extract_financial_data(p) ==
    IF ~HasCase(p) THEN EmptyDict
    ELSE LET r1 == IF p.ebitda_series = "missing" THEN EmptyDict
                   ELSE IF p.ebitda_series = "empty" THEN [ebitda |-> EmptyDict]
                   ELSE [ebitda |-> Put(p.ebitda, DealYear, p.deal_ebitda)]
             r2 == IF Field(p, "ebit_series", "missing") = "missing" THEN r1
                   ELSE Put(r1, "ebit",
                            IF p.ebit_series = "empty" THEN EmptyDict ELSE p.ebit)
         IN  IF "d_and_a" \in DOMAIN p THEN Put(r2, "d_and_a", p.d_and_a) ELSE r2

\* DealParameters(...) with __post_init__; the extractor passes no hardcoded
\* entry or exit value, so both keep their default
DealParameters(purchase_price, entry_multiple, exit_multiple, exit_method, entry_fee, exit_fee, tax_rate, minimum_cash, exit_year) ==
    [ purchase_price |-> purchase_price,
      entry_multiple |-> entry_multiple,
      exit_multiple |-> exit_multiple,
      exit_valuation_method |-> exit_method,
      hardcoded_exit_value |-> 0,
      entry_fee_percentage |-> entry_fee,
      exit_fee_percentage |-> exit_fee,
      tax_rate |-> tax_rate,
      minimum_cash |-> minimum_cash,
      deal_year |-> DealYear,
      exit_year |-> exit_year,
      transaction_fee_amount |-> PctOf(purchase_price, entry_fee) ]

extract_deal_parameters(p) ==
    LET entry_valuation == DealField(p, "entry_valuation", EmptyDict)
        entry_multiple == Field(entry_valuation, "multiple", 0)
        exit_valuation == DealField(p, "exit_valuation", EmptyDict)
        exit_method == Field(exit_valuation, "method", "multiple")
        exit_multiple == Field(exit_valuation, "multiple", 0)
        fd == extract_financial_data(p)
        ebitda_value == IF "ebitda" \in DOMAIN fd
                        THEN get_value(fd["ebitda"], DealYear) ELSE 0
        purchase_price ==
            IF entry_multiple > 0 /\ "ebitda" \in DOMAIN fd /\ ebitda_value > 0
            THEN ebitda_value * entry_multiple ELSE 0
    IN  DealParameters(purchase_price, entry_multiple, exit_multiple, exit_method,
                       DealField(p, "entry_fee_percentage", EntryFeeDefault),
                       DealField(p, "exit_fee_percentage", ExitFeeDefault),
                       DealField(p, "tax_rate", TaxRateDefault),
                       DealField(p, "minimum_cash", 0),
                       DealField(p, "exit_year", ExitYearDefault))

\* range(deal_year + 1, exit_year + 1)
ForecastYears(dp) ==
    [i \in 1..Max(0, dp.exit_year - dp.deal_year) |-> dp.deal_year + i]

\* ----------------------------------------------------------- sources and uses
NoEquity == [given |-> FALSE]

TotalFinancingFees(dts) ==
    SumSeq([i \in DOMAIN dts |-> dts[i].financing_fee_amount])

UsesOf(dp, dts) ==
    LET u1 == [purchase_price |-> dp.purchase_price]
        u2 == IF dp.transaction_fee_amount > 0
              THEN Put(u1, "transaction_fees", dp.transaction_fee_amount) ELSE u1
        u3 == IF TotalFinancingFees(dts) > 0
              THEN Put(u2, "financing_fees", TotalFinancingFees(dts)) ELSE u2
        u4 == IF dp.minimum_cash > 0
              THEN Put(u3, "minimum_cash", dp.minimum_cash) ELSE u3
    IN  Put(u4, "total_uses", SumFn(u4))

TotalDebt(dts) == SumSeq([i \in DOMAIN dts |-> dts[i].drawn_amount])

\* the equity that balances the table when none is supplied
EquityPlug(total_uses, total_debt) == total_uses - total_debt

RECURSIVE TrancheSources(_, _)
\* sources[tranche.label] = tranche.drawn_amount, in the order of the tranches
TrancheSources(dts, n) ==
    IF n = 0 THEN EmptyDict
    ELSE Put(TrancheSources(dts, n - 1), dts[n].label, dts[n].drawn_amount)

DebtToEquity(total_debt, equity_amount) ==
    IF equity_amount > 0 THEN Div(total_debt, equity_amount) ELSE Zero

ShareOfSources(amount, total_sources) ==
    IF total_sources > 0 THEN Div(amount, total_sources) ELSE Zero

calculate_sources_uses(dp, dts, equity) ==
    LET uses == UsesOf(dp, dts)
        total_uses == uses["total_uses"]
        total_debt == TotalDebt(dts)
        s1 == TrancheSources(dts, Len(dts))
        s2 == IF Len(dts) > 1 THEN Put(s1, "total_debt", total_debt) ELSE s1
        equity_amount == IF equity.given THEN equity.value
                         ELSE EquityPlug(total_uses, total_debt)
        total_sources == total_debt + equity_amount
        imbalance == Abs(total_sources - total_uses)
    IN  [ sources |-> Put(Put(s2, "equity", equity_amount),
                          "total_sources", total_sources),
          uses |-> uses,
          details |->
            [ debt_to_equity_ratio |-> DebtToEquity(total_debt, equity_amount),
              equity_percentage |-> ShareOfSources(equity_amount, total_sources),
              debt_percentage |-> ShareOfSources(total_debt, total_sources),
              total_fees |-> dp.transaction_fee_amount + TotalFinancingFees(dts) ],
          validation |-> [ balanced |-> imbalance * 100 <= Scale,
                           imbalance |-> imbalance ] ]

\* ------------------------------------------------------------------ re-taxer
UpdateYearAccumulating(cf, total_interest, cash_interest, tax_rate) ==
    LET pbt == cf.ebit - total_interest
        cash_taxes == Max(0, PctOf(pbt, tax_rate))
        fcf == cf.fcf + cf.cash_taxes - cash_taxes - cash_interest
    IN  [cf EXCEPT !.cash_taxes = -cash_taxes,
                   !.cash_interest = -cash_interest,
                   !.unlevered_fcf = cf.unlevered_fcf + cf.cash_taxes - cash_taxes,
                   !.fcf = fcf,
                   !.cfads = fcf]

\* the body of the loop of update_with_interest for one year
UpdateYear(cf, total_interest, cash_interest, tax_rate) ==
    LET pbt == cf.ebit - total_interest
        cash_taxes == Max(0, PctOf(pbt, tax_rate))
        unlevered_fcf == cf.ebitda + (-cash_taxes) + cf.capex + cf.change_wc
        fcf == unlevered_fcf + (-cash_interest)
    IN  [cf EXCEPT !.cash_taxes = -cash_taxes,
                   !.cash_interest = -cash_interest,
                   !.unlevered_fcf = unlevered_fcf,
                   !.fcf = fcf,
                   !.cfads = fcf]

update_with_interest(cfs, total_interest_schedule, cash_interest_schedule, tax_rate) ==
    [y \in DOMAIN cfs |->
        UpdateYear(cfs[y], Get(total_interest_schedule, y, 0),
                   Get(cash_interest_schedule, y, 0), tax_rate)]

\* ---------------------------------------------------------- leverage metrics
\* get_total_debt_balance
get_total_debt_balance(sch, y) ==
    SumFn([l \in DOMAIN sch |-> Get(sch[l].balances, y, 0)])

NetLeverage(net_debt, ebitda) == IF ebitda > 0 THEN Div(net_debt, ebitda) ELSE Zero
GrossLeverage(total_debt, ebitda) == IF ebitda > 0 THEN Div(total_debt, ebitda) ELSE Zero

get_leverage_metrics(sch, ebitda_by_year, cash) ==
    [y \in DOMAIN ebitda_by_year |->
        LET total_debt == get_total_debt_balance(sch, y)
            c == Get(cash, y, 0)
            net_debt == total_debt - c
        IN  [ net_leverage |-> NetLeverage(net_debt, ebitda_by_year[y]),
              gross_leverage |-> GrossLeverage(total_debt, ebitda_by_year[y]),
              total_debt |-> total_debt,
              cash |-> c,
              net_debt |-> net_debt ]]

\* -------------------------------------------------------------------- returns
\* max(annual_cash_flows.keys())
FinalYear(cfs) == CHOOSE y \in DOMAIN cfs : \A z \in DOMAIN cfs : z <= y

\* the EBITDA of the final year, or of the latest year with a positive one
ExitEbitda(cfs) ==
    LET final == cfs[FinalYear(cfs)].ebitda
        positive == {y \in DOMAIN cfs : cfs[y].ebitda > 0}
    IN  IF final = 0 /\ positive # {}
        THEN cfs[CHOOSE y \in positive : \A z \in positive : z <= y].ebitda
        ELSE final

ExitEnterpriseValue(dp, exit_ebitda) == exit_ebitda * dp.exit_multiple

MoicUnguarded(exit_proceeds, entry_equity) == Div(exit_proceeds, entry_equity)

Moic(exit_proceeds, entry_equity) ==
    IF entry_equity > 0 THEN Div(exit_proceeds, entry_equity) ELSE Zero

\* moic ** (1 / holding_period) - 1
Irr(moic, holding_period) ==
    IF moic.num > 0 /\ holding_period > 0
    THEN [num |-> moic.num, den |-> moic.den, root |-> holding_period]
    ELSE ZeroIrr

\* Phase 4 of _run_complete_lbo_analysis
Returns(dp, cfs, sch, cash, entry_equity) ==
    LET final_year == FinalYear(cfs)
        final_cash == Get(cash, final_year, 0)
        final_debt == get_total_debt_balance(sch, final_year)
        exit_enterprise_value == ExitEnterpriseValue(dp, ExitEbitda(cfs))
        exit_fees == PctOf(exit_enterprise_value, dp.exit_fee_percentage)
        exit_proceeds == exit_enterprise_value + final_cash - final_debt - exit_fees
        holding_period == dp.exit_year - dp.deal_year
        moic == Moic(exit_proceeds, entry_equity)
    IN  [ entry_equity |-> entry_equity,
          exit_ebitda |-> ExitEbitda(cfs),
          exit_enterprise_value |-> exit_enterprise_value,
          exit_cash |-> final_cash,
          exit_debt |-> final_debt,
          exit_fees |-> exit_fees,
          exit_proceeds |-> exit_proceeds,
          moic |-> moic,
          irr |-> Irr(moic, holding_period),
          holding_period |-> holding_period ]

\* --------------------------------------------------------------- the result
FailureResultWithSections(case_id, error) ==
    [success |-> FALSE, case_id |-> case_id, error |-> error,
     sources_uses |-> EmptyDict]

FailureResult(case_id, error) ==
    [success |-> FALSE, case_id |-> case_id, error |-> error]

SuccessResult(case_id, su, cfs, sch, cash, lev, ret) ==
    [ success |-> TRUE,
      case_id |-> case_id,
      sources_uses |-> su,
      annual_cash_flows |-> cfs,
      debt_schedules |-> sch,
      cash_balance |-> cash,
      leverage_metrics |-> lev,
      returns |-> [k \in (DOMAIN ret) \ {"exit_ebitda"} |-> ret[k]],
      summary |->
        [ case_id |-> case_id,
          irr |-> ret.irr,
          moic |-> ret.moic,
          entry_equity |-> ret.entry_equity,
          exit_proceeds |-> ret.exit_proceeds,
          total_debt_paydown |->
              SumFn([l \in DOMAIN sch |-> Get(sch[l], "total_paydown", 0)]),
          final_cash |-> ret.exit_cash,
          final_leverage |-> lev[FinalYear(cfs)].net_leverage,
          holding_period |-> ret.holding_period ] ]

\* ------------------------------------------------------------------ inputs
S == Scale

TrancheA ==
    [ label |-> "A", type |-> "Bond", original_size |-> 8 * S,
      interest_rate |-> 50,
      amortization_schedule |-> << Num(50), Num(50) >>,
      repayment_seniority |-> 1 ]

TrancheB ==
    [ name |-> "B", type |-> "mezzanine", amount |-> 8 * S,
      pik_interest_rate |-> 50, repayment_seniority |-> 1 ]

TrancheA2 ==
    [ label |-> "A", tranche_type |-> "term_loan", size |-> 4 * S,
      interest_margin |-> 48, amortization |-> << Num(25) >>,
      repayment_seniority |-> 2 ]

TrancheB2 ==
    [ label |-> "B", type |-> "bond", original_size |-> 4 * S,
      amortization_rate |-> 25 ]

TrancheC ==
    [ label |-> "C", type |-> "bond", original_size |-> 4 * S,
      cash_interest_rate |-> 50, amortization_schedule |-> << Num(0) >>,
      repayment_seniority |-> 1 ]

NonRevolverMenu == {TrancheA, TrancheB, TrancheA2, TrancheB2, TrancheC}

RevolverUndrawn ==
    [ label |-> "RCF", type |-> "Revolver", original_size |-> 4 * S,
      interest_margin |-> 48, repayment_seniority |-> 99 ]

RevolverDrawn ==
    [ label |-> "RCF", type |-> "revolving credit facility",
      original_size |-> 24 * S, percentage_drawn_at_deal_date |-> 100,
      repayment_seniority |-> 99 ]

RECURSIVE SeqsUpTo(_, _)
SeqsUpTo(menu, n) ==
    IF n = 0 THEN {<< >>}
    ELSE LET shorter == SeqsUpTo(menu, n - 1)
         IN  shorter \cup
             {Append(q, td) : q \in {x \in shorter : Len(x) = n - 1}, td \in menu}

UniqueLabels(tds) ==
    \A i, j \in DOMAIN tds : LabelOf(tds[i]) = LabelOf(tds[j]) => i = j

CapitalStructures ==
    LET plain == {q \in SeqsUpTo(NonRevolverMenu, MaxNonRevolver) : UniqueLabels(q)}
    IN  plain \cup {<< RevolverUndrawn >> \o q : q \in plain}
              \cup {Append(q, RevolverDrawn) : q \in plain}

EbitdaValues == {0, 4 * S, 16 * S}
TaxRates == {25, 50}
MinimumCashValues == {0, 2 * S}

\* tranches the specification calls malformed
TrancheZero == [ label |-> "Z", type |-> "bond", original_size |-> 0 ]

TrancheNegative == [ label |-> "N", type |-> "bond", size |-> -4 * S ]

TrancheNoSize == [ label |-> "M", type |-> "bond", interest_rate |-> 50 ]

\* amortization_schedule "25%/25%"
TrancheBadAmort ==
    [ label |-> "X", type |-> "bond", original_size |-> 4 * S,
      amortization_schedule |->
          << [digits |-> 25, suffix |-> "%"], [digits |-> 25, suffix |-> "%"] >> ]

\* Scenario D: "Mezz", size 50, 5% cash and 5% PIK interest, bullet
TrancheMezz ==
    [ label |-> "Mezz", type |-> "mezzanine", size |-> 50 * S,
      interest_rate |-> 5, pik_interest_rate |-> 5 ]

DealStructures ==
    { << >>, << TrancheA >>, << TrancheB2 >>, << RevolverDrawn >>,
      << RevolverUndrawn, TrancheA2 >>,
      << TrancheZero >>, << TrancheNegative >>, << TrancheNoSize >>,
      << TrancheBadAmort >>, << TrancheMezz >> }

HardcodedExitValue == 40 * S

EntryValuations ==
    { [method |-> "multiple", multiple |-> 2],
      [method |-> "multiple", multiple |-> 0] }

ExitValuations ==
    { [method |-> "multiple", multiple |-> 2],
      [method |-> "multiple", multiple |-> 0],
      [method |-> "hardcode", hardcoded_value |-> HardcodedExitValue],
      [method |-> "hardcode", hardcoded_value |-> HardcodedExitValue,
       multiple |-> 2] }

ForecastEbitda == [{DealYear + i : i \in 1..NumYears} -> EbitdaValues]

\* deals that exercise the waterfall, with a plain valuation
WaterfallProjects ==
    [ case_id : {"base_case"},
      tranches : CapitalStructures,
      ebitda_series : {"present"},
      deal_ebitda : {4 * S},
      ebitda : ForecastEbitda,
      tax_rate : TaxRates,
      minimum_cash : MinimumCashValues,
      entry_valuation : {[method |-> "multiple", multiple |-> 2]},
      exit_valuation : {[method |-> "multiple", multiple |-> 2]},
      exit_year : {ExitYear} ]

\* documents that exercise the binder, the valuation and the returns
DealProjects ==
    [ case_id : {"base_case", "upside_case"},
      tranches : DealStructures,
      ebitda_series : {"present", "missing", "empty"},
      deal_ebitda : {0, 4 * S},
      ebitda : ForecastEbitda,
      tax_rate : {25},
      minimum_cash : MinimumCashValues,
      entry_valuation : EntryValuations,
      exit_valuation : ExitValuations,
      exit_year : {DealYear - 1, DealYear, ExitYear} ]

\* Scenario A: deal date 2024-01-01, exit date 2028-12-31, no tranches, no
\* fees, entry and exit multiple 8, EBITDA 25, 28, 31, 34, 37 for 2024..2028
ScenarioA ==
    [ case_id |-> "base_case",
      tranches |-> << >>,
      ebitda_series |-> "present",
      deal_ebitda |-> 25 * S,
      ebitda |-> (2025 :> 28 * S) @@ (2026 :> 31 * S) @@ (2027 :> 34 * S)
                    @@ (2028 :> 37 * S),
      tax_rate |-> 25,
      minimum_cash |-> 0,
      entry_fee_percentage |-> 0,
      exit_fee_percentage |-> 0,
      entry_valuation |-> [method |-> "multiple", multiple |-> 8],
      exit_valuation |-> [method |-> "multiple", multiple |-> 8],
      exit_year |-> 2028 ]

\* Scenario E: the deal of Scenario A with 120 of debt, so that the equity
\* that balances is 80, and a user-specified equity of 50
TrancheSenior ==
    [ label |-> "Senior", type |-> "bond", size |-> 120 * S, financing_fees |-> 0 ]

ScenarioE ==
    [ case_id |-> "base_case",
      tranches |-> << TrancheSenior >>,
      ebitda_series |-> "present",
      deal_ebitda |-> 25 * S,
      ebitda |-> (2025 :> 28 * S) @@ (2026 :> 31 * S) @@ (2027 :> 34 * S)
                    @@ (2028 :> 37 * S),
      tax_rate |-> 25,
      minimum_cash |-> 0,
      entry_fee_percentage |-> 0,
      exit_fee_percentage |-> 0,
      entry_valuation |-> [method |-> "multiple", multiple |-> 8],
      exit_valuation |-> [method |-> "multiple", multiple |-> 8],
      equity_injection |-> 50 * S,
      exit_year |-> 2028 ]

ScenarioProjects == {ScenarioA, ScenarioE}

ForecastYearsOfDeals == {DealYear + i : i \in 1..NumYears}

\* cases with an EBIT series (absent, [] as in a new case, or with values)
\* and a D&A series
EbitProjects ==
    [ case_id : {"base_case"},
      tranches : {<< >>, << TrancheC >>, << TrancheB >>},
      ebitda_series : {"present"},
      deal_ebitda : {4 * S},
      ebitda : [ForecastYearsOfDeals -> {4 * S, 16 * S}],
      ebit_series : {"missing", "empty", "present"},
      ebit : [ForecastYearsOfDeals -> {-4 * S, 2 * S}],
      d_and_a : {[y \in ForecastYearsOfDeals |-> d] : d \in {0, 2 * S, 8 * S}},
      tax_rate : TaxRates,
      minimum_cash : {0},
      entry_valuation : {[method |-> "multiple", multiple |-> 2]},
      exit_valuation : {[method |-> "multiple", multiple |-> 2]},
      exit_year : {ExitYear} ]

Projects ==
    WaterfallProjects \cup DealProjects \cup ScenarioProjects \cup EbitProjects

\* ------------------------------------------------ project documents (HTTP)
\* The stored document of a project is a nested dict.  It is kept here as a
\* function over the paths of that dict: each path is absent, a dict, or a
\* scalar value.  A path is present only under a dict.
NumRequests == 2

Requests == 1..NumRequests

CaseIds == {"base_case", "downside_case"}

ParamKeys == {"tax_rate", "minimum_cash"}

CasesPath == << "cases" >>

MetaPath == << "meta" >>

LastModified == << "meta", "last_modified" >>

CompanyName == << "meta", "company_name" >>

CasePath(c) == << "cases", c >>

ParamsPath(c) == << "cases", c, "deal_parameters" >>

ParamPath(c, k) == << "cases", c, "deal_parameters", k >>

Nodes ==
    {MetaPath, LastModified, CompanyName, CasesPath}
        \cup {CasePath(c) : c \in CaseIds}
        \cup {ParamsPath(c) : c \in CaseIds}
        \cup {ParamPath(c, k) : c \in CaseIds, k \in ParamKeys}

Absent == [kind |-> "absent", v |-> 0]

Dict == [kind |-> "dict", v |-> 0]

Value(v) == [kind |-> "value", v |-> v]

NoData == [n \in Nodes |-> Absent]

IsPrefix(p, q) == Len(p) <= Len(q) /\ SubSeq(q, 1, Len(p)) = p

ProperPrefix(p, q) == Len(p) < Len(q) /\ IsPrefix(p, q)

\* create_empty_case: the defaults of a new case (0 stands for the default
\* of each parameter, which no request sends)
create_empty_case(c, n) ==
    IF n \in {CasePath(c), ParamsPath(c)} THEN Dict ELSE Value(0)

\* create_empty_project_data: meta and the one case "base_case"
create_empty_project_data ==
    [n \in Nodes |->
        IF n \in {MetaPath, CasesPath} THEN Dict
        ELSE IF n \in {LastModified, CompanyName} THEN Value(0)
        ELSE IF IsPrefix(CasePath("base_case"), n)
             THEN create_empty_case("base_case", n)
        ELSE Absent]

\* the keys of data["cases"]
Cases(data) == {c \in CaseIds : data[CasePath(c)].kind # "absent"}

\* set_nested_value stops with a TypeError when the walk meets a scalar
SetRaises(data, path) ==
    \E n \in Nodes : ProperPrefix(n, path) /\ data[n].kind = "value"

\* set_nested_value: missing dicts on the way are created, the last key is
\* assigned, and what was under it is gone
set_nested_value(data, path, value) ==
    [n \in Nodes |->
        IF n = path THEN value
        ELSE IF ProperPrefix(n, path) THEN Dict
        ELSE IF ProperPrefix(path, n) THEN Absent
        ELSE data[n]]

\* data["meta"]["last_modified"] = now; the clock reading of request r is r
Touch(data, r) == [data EXCEPT ![LastModified] = Value(r)]

\* the loop of bulk_update_project over updates.updates, from the i-th on
RECURSIVE BulkRaises(_, _, _, _)
BulkRaises(data, paths, value, i) ==
    IF i > Len(paths) THEN FALSE
    ELSE IF SetRaises(data, paths[i]) THEN TRUE
    ELSE BulkRaises(set_nested_value(data, paths[i], value), paths, value, i + 1)

RECURSIVE BulkApply(_, _, _, _)
BulkApply(data, paths, value, i) ==
    IF i > Len(paths) THEN data
    ELSE BulkApply(set_nested_value(data, paths[i], value), paths, value, i + 1)

\* data["cases"][case_id] = create_empty_case(case_desc)
AddCase(data, c) ==
    [n \in Nodes |->
        IF IsPrefix(CasePath(c), n) THEN create_empty_case(c, n) ELSE data[n]]

\* del data["cases"][case_id]
DelCase(data, c) ==
    [n \in Nodes |-> IF IsPrefix(CasePath(c), n) THEN Absent ELSE data[n]]

\* len(data["cases"]) <= 1
OnlyCaseNever(data) == FALSE

OnlyCase(data) == Cardinality(Cases(data)) <= 1

\* the paths the requests patch, and the lists of a bulk request
PatchPaths ==
    {CompanyName, ParamPath("base_case", "tax_rate"),
     ParamPath("base_case", "minimum_cash"), ParamsPath("base_case"),
     ParamPath("downside_case", "tax_rate")}

BulkUpdates ==
    {<< ParamPath("base_case", "tax_rate"), ParamPath("base_case", "minimum_cash") >>,
     << CompanyName, ParamPath("base_case", "tax_rate") >>}

\* the row of the projects table: None once the project is deleted
NoRow == [exists |-> FALSE, data |-> NoData]

Row(data) == [exists |-> TRUE, data |-> data]

\* a request not yet sent
Idle ==
    [ pc |-> "idle", kind |-> "", owner |-> TRUE, paths |-> << >>,
      case_id |-> "", seen |-> NoData, data |-> NoData, status |-> 0 ]

\* ------------------------------------------------------------------- state
VARIABLES project, pc, debt_tranches, cash_flows, schedules, cash_balance,
          total_interest_by_year, cash_interest_by_year, prev_year_cash,
          year_idx, iteration, prev_revolver_balance, loc,
          deal_params, sources_uses, leverage_metrics, returns, result,
          db_project, request

vars == << project, pc, debt_tranches, cash_flows, schedules, cash_balance,
           total_interest_by_year, cash_interest_by_year, prev_year_cash,
           year_idx, iteration, prev_revolver_balance, loc,
           deal_params, sources_uses, leverage_metrics, returns, result,
           db_project, request >>

\* the engine's own state: the HTTP layer never touches it
engine == << project, pc, debt_tranches, cash_flows, schedules, cash_balance,
             total_interest_by_year, cash_interest_by_year, prev_year_cash,
             year_idx, iteration, prev_revolver_balance, loc,
             deal_params, sources_uses, leverage_metrics, returns, result >>

\* the projects table and the requests in flight: the engine consults neither
api == << db_project, request >>

\* what the waterfall leaves alone
analysis == << deal_params, sources_uses, leverage_metrics, returns, result >>

NoLocals ==
    [ total_cash_interest |-> 0, total_pik_interest |-> 0, cfads |-> 0,
      available_for_debt |-> 0, total_mandatory |-> 0,
      cash_after_mandatory |-> 0, rcf_draw_needed |-> 0, remaining_cash |-> 0 ]

Init ==
    /\ project \in Projects
    /\ pc = "extract"
    /\ debt_tranches = << >>
    /\ cash_flows = EmptyDict
    /\ schedules = EmptyDict
    /\ cash_balance = EmptyDict
    /\ total_interest_by_year = EmptyDict
    /\ cash_interest_by_year = EmptyDict
    /\ prev_year_cash = 0
    /\ year_idx = 0
    /\ iteration = 0
    /\ prev_revolver_balance = 0
    /\ loc = NoLocals
    /\ deal_params = EmptyDict
    /\ sources_uses = EmptyDict
    /\ leverage_metrics = EmptyDict
    /\ returns = EmptyDict
    /\ result = EmptyDict
    /\ db_project = NoRow
    /\ request = [r \in Requests |-> Idle]

financial_data == extract_financial_data(project)

\* years = sorted(cash_flows.keys())
years == ForecastYears(deal_params)

year == years[year_idx + 1]

\* extract_all: the tranches of the capital structure
Extract ==
    /\ pc = "extract"
    /\ UNCHANGED api
    /\ debt_tranches' = extract_debt_structure(DealField(project, "tranches", << >>))
    /\ deal_params' = extract_deal_parameters(project)
    /\ pc' = "validate"
    /\ UNCHANGED << project, cash_flows, schedules, cash_balance,
                    total_interest_by_year, cash_interest_by_year,
                    prev_year_cash, year_idx, iteration,
                    prev_revolver_balance, loc,
                    sources_uses, leverage_metrics, returns, result >>

ValidationErrorNone(fd, dp) == ""

\* the two checks of run_lbo_analysis before the analysis is run: the error
\* message, or "" when both pass
ValidationError(fd, dp) ==
    IF "ebitda" \notin DOMAIN fd THEN "No EBITDA data found"
    ELSE IF dp.purchase_price <= 0 THEN "No purchase price calculated"
    ELSE ""

Validate ==
    /\ pc = "validate"
    /\ UNCHANGED api
    /\ IF ValidationError(financial_data, deal_params) # ""
       THEN /\ result' = FailureResult(project.case_id,
                                       ValidationError(financial_data, deal_params))
            /\ pc' = "returned"
       ELSE /\ result' = result
            /\ pc' = "sources_uses"
    /\ UNCHANGED << project, debt_tranches, cash_flows, schedules, cash_balance,
                    total_interest_by_year, cash_interest_by_year,
                    prev_year_cash, year_idx, iteration,
                    prev_revolver_balance, loc,
                    deal_params, sources_uses, leverage_metrics, returns >>

\* Phase 1: sources and uses, equity as the plug
SourcesUses ==
    /\ pc = "sources_uses"
    /\ UNCHANGED api
    /\ sources_uses' = calculate_sources_uses(deal_params, debt_tranches, NoEquity)
    /\ pc' = "cash_flows"
    /\ UNCHANGED << project, debt_tranches, cash_flows, schedules, cash_balance,
                    total_interest_by_year, cash_interest_by_year,
                    prev_year_cash, year_idx, iteration,
                    prev_revolver_balance, loc,
                    deal_params, leverage_metrics, returns, result >>

\* Phase 2: first-pass cash flows
CalculateCashFlows ==
    /\ pc = "cash_flows"
    /\ UNCHANGED api
    /\ cash_flows' =
         IF ForecastYears(deal_params) = << >> THEN EmptyDict
         ELSE calculate_annual_cash_flows(financial_data, deal_params.tax_rate,
                                          ForecastYears(deal_params))
    /\ pc' = "schedules"
    /\ UNCHANGED << project, debt_tranches, schedules, cash_balance,
                    total_interest_by_year, cash_interest_by_year,
                    prev_year_cash, year_idx, iteration,
                    prev_revolver_balance, loc >>
    /\ UNCHANGED analysis

\* Phase 3: the tracker is built and the opening balances are set
StartSchedules ==
    /\ pc = "schedules"
    /\ UNCHANGED api
    /\ IF DOMAIN cash_flows = {}
       THEN \* years is empty: years[0], or years[-1] when there is no tranche,
            \* raises IndexError, which run_lbo_analysis catches
            /\ result' = FailureResult(project.case_id, "list index out of range")
            /\ pc' = "returned"
            /\ UNCHANGED << schedules, prev_year_cash, year_idx >>
       ELSE /\ schedules' =
                 [l \in Labels(debt_tranches) |->
                    LET s == NewSchedule(TrancheOf(debt_tranches, l))
                    IN  [s EXCEPT !.balances = Put(@, years[1] - 1, s.starting_balance)]]
            /\ prev_year_cash' = project.minimum_cash
            /\ year_idx' = 0
            /\ pc' = "year"
            /\ result' = result
    /\ UNCHANGED << project, debt_tranches, cash_flows, cash_balance,
                    total_interest_by_year, cash_interest_by_year, iteration,
                    prev_revolver_balance, loc >>
    /\ UNCHANGED << deal_params, sources_uses, leverage_metrics, returns >>

HasRevolver == RevolverIndex(debt_tranches, schedules) # 0
RevolverLabel == debt_tranches[RevolverIndex(debt_tranches, schedules)].label

\* the head of the loop over the years
BeginYear ==
    /\ pc = "year"
    /\ UNCHANGED api
    /\ prev_revolver_balance' =
         IF HasRevolver THEN Get(schedules[RevolverLabel].balances, year - 1, 0)
         ELSE 0
    /\ iteration' = 0
    /\ pc' = "iterate"
    /\ UNCHANGED << project, debt_tranches, cash_flows, schedules, cash_balance,
                    total_interest_by_year, cash_interest_by_year,
                    prev_year_cash, year_idx, loc >>
    /\ UNCHANGED analysis

ConvergedNever(current_revolver, previous) == FALSE

Converged(current_revolver, previous) ==
    Abs(current_revolver - previous) * ThresholdPerUnit < Scale

\* one iteration of the fixed-point loop, with its convergence check
Iterate ==
    /\ pc = "iterate"
    /\ UNCHANGED api
    /\ iteration < max_iterations
    /\ \E r \in {Iteration(schedules, debt_tranches, cash_flows[year], year,
                            year_idx, prev_year_cash, project.minimum_cash, TRUE)} :
       LET current_revolver ==
               IF HasRevolver THEN Get(r.sch[RevolverLabel].balances, year, 0) ELSE 0
           break == ~HasRevolver \/ Converged(current_revolver, prev_revolver_balance)
       IN  /\ schedules' = r.sch
           /\ cash_balance' = Put(cash_balance, year, r.cash)
           /\ loc' = [k \in DOMAIN NoLocals |-> r[k]]
           /\ prev_revolver_balance' =
                IF break THEN prev_revolver_balance ELSE current_revolver
           /\ iteration' = IF break THEN iteration ELSE iteration + 1
           /\ pc' = IF break \/ iteration + 1 = max_iterations
                    THEN "store" ELSE "iterate"
    /\ UNCHANGED << project, debt_tranches, cash_flows, total_interest_by_year,
                    cash_interest_by_year, prev_year_cash, year_idx >>
    /\ UNCHANGED analysis

\* after the loop: the interest of the year and the cash carried forward
StoreYear ==
    /\ pc = "store"
    /\ UNCHANGED api
    /\ total_interest_by_year' =
         Put(total_interest_by_year, year,
             loc.total_cash_interest + loc.total_pik_interest)
    /\ cash_interest_by_year' = Put(cash_interest_by_year, year, loc.total_cash_interest)
    /\ prev_year_cash' = cash_balance[year]
    /\ IF year_idx + 1 < Len(years)
       THEN year_idx' = year_idx + 1 /\ pc' = "year"
       ELSE year_idx' = year_idx /\ pc' = "paydown"
    /\ UNCHANGED << project, debt_tranches, cash_flows, schedules, cash_balance,
                    iteration, prev_revolver_balance, loc >>
    /\ UNCHANGED analysis

\* total paydown per tranche, and the schedules are returned
TotalPaydown ==
    /\ pc = "paydown"
    /\ UNCHANGED api
    /\ schedules' =
         [l \in DOMAIN schedules |->
            [k \in (DOMAIN schedules[l]) \cup {"total_paydown"} |->
                IF k = "total_paydown"
                THEN schedules[l].starting_balance
                        - Get(schedules[l].balances, years[Len(years)], 0)
                ELSE schedules[l][k]]]
    /\ pc' = "done"
    /\ UNCHANGED << project, debt_tranches, cash_flows, cash_balance,
                    total_interest_by_year, cash_interest_by_year,
                    prev_year_cash, year_idx, iteration,
                    prev_revolver_balance, loc >>
    /\ UNCHANGED analysis

\* the cash flows are re-taxed with the interest of the schedules
UpdateWithInterest ==
    /\ pc = "done"
    /\ UNCHANGED api
    /\ cash_flows' = update_with_interest(cash_flows, total_interest_by_year,
                                          cash_interest_by_year, deal_params.tax_rate)
    /\ pc' = "leverage"
    /\ UNCHANGED << project, debt_tranches, schedules, cash_balance,
                    total_interest_by_year, cash_interest_by_year,
                    prev_year_cash, year_idx, iteration,
                    prev_revolver_balance, loc >>
    /\ UNCHANGED analysis

LeverageMetrics ==
    /\ pc = "leverage"
    /\ UNCHANGED api
    /\ leverage_metrics' =
         get_leverage_metrics(schedules,
                              [y \in DOMAIN cash_flows |-> cash_flows[y].ebitda],
                              cash_balance)
    /\ pc' = "returns"
    /\ UNCHANGED << project, debt_tranches, cash_flows, schedules, cash_balance,
                    total_interest_by_year, cash_interest_by_year,
                    prev_year_cash, year_idx, iteration,
                    prev_revolver_balance, loc,
                    deal_params, sources_uses, returns, result >>

\* Phase 4 and the compiled result, with success = True
CalculateReturns ==
    /\ pc = "returns"
    /\ UNCHANGED api
    /\ \E ret \in {Returns(deal_params, cash_flows, schedules, cash_balance,
                            Get(sources_uses.sources, "equity", 0))} :
         /\ returns' = ret
         /\ result' = SuccessResult(project.case_id, sources_uses, cash_flows,
                                    schedules, cash_balance, leverage_metrics, ret)
    /\ pc' = "returned"
    /\ UNCHANGED << project, debt_tranches, cash_flows, schedules, cash_balance,
                    total_interest_by_year, cash_interest_by_year,
                    prev_year_cash, year_idx, iteration,
                    prev_revolver_balance, loc,
                    deal_params, sources_uses, leverage_metrics >>

Next ==
    \/ Extract
    \/ Validate
    \/ SourcesUses
    \/ CalculateCashFlows
    \/ StartSchedules
    \/ BeginYear
    \/ Iterate
    \/ StoreYear
    \/ TotalPaydown
    \/ UpdateWithInterest
    \/ LeverageMetrics
    \/ CalculateReturns

Spec == Init /\ [][Next]_vars

\* ================================================================ HTTP layer
\* The handlers of api/projects.py on one project.  A handler runs to its next
\* await without interruption; between two awaits the other requests may run.
\* Each handler reads the row (db_get_project), checks and changes its own copy
\* of the document, and then writes the whole document back
\* (db_update_project).

\* 404 and 403 of every handler; 0 when the request may go on
Access(row, owner) ==
    IF ~row.exists THEN 404 ELSE IF ~owner THEN 403 ELSE 0

\* the handler raises: the response is sent, nothing is written
Raised(r, kind, owner, paths, c, st) ==
    [ pc |-> "done", kind |-> kind, owner |-> owner, paths |-> paths,
      case_id |-> c, seen |-> db_project.data, data |-> NoData, status |-> st ]

\* the handler reaches its second await with the changed document
Awaiting(r, kind, owner, paths, c, data, next) ==
    [ pc |-> next, kind |-> kind, owner |-> owner, paths |-> paths,
      case_id |-> c, seen |-> db_project.data, data |-> data, status |-> 0 ]

\* PATCH /{project_id}: up to the call of db_update_project
update_project(r) ==
    /\ request[r].pc = "idle"
    /\ \E owner \in BOOLEAN, path \in PatchPaths :
         LET acc == Access(db_project, owner)
             data == db_project.data
         IN request' = [request EXCEPT ![r] =
              IF acc # 0 THEN Raised(r, "patch", owner, << path >>, "", acc)
              ELSE IF SetRaises(data, path)
                   THEN Raised(r, "patch", owner, << path >>, "", 500)
              ELSE Awaiting(r, "patch", owner, << path >>, "",
                            Touch(set_nested_value(data, path, Value(r)), r),
                            "update")]
    /\ UNCHANGED db_project
    /\ UNCHANGED engine

\* PATCH /{project_id}/bulk: up to the call of db_update_project
bulk_update_project(r) ==
    /\ request[r].pc = "idle"
    /\ \E owner \in BOOLEAN, paths \in BulkUpdates :
         LET acc == Access(db_project, owner)
             data == db_project.data
         IN request' = [request EXCEPT ![r] =
              IF acc # 0 THEN Raised(r, "bulk", owner, paths, "", acc)
              ELSE IF BulkRaises(data, paths, Value(r), 1)
                   THEN Raised(r, "bulk", owner, paths, "", 500)
              ELSE Awaiting(r, "bulk", owner, paths, "",
                            Touch(BulkApply(data, paths, Value(r), 1), r),
                            "update")]
    /\ UNCHANGED db_project
    /\ UNCHANGED engine

\* POST /{project_id}/cases/{case_id}: up to the call of db_update_project
add_case(r) ==
    /\ request[r].pc = "idle"
    /\ \E owner \in BOOLEAN, c \in CaseIds :
         LET acc == Access(db_project, owner)
             data == db_project.data
         IN request' = [request EXCEPT ![r] =
              IF acc # 0 THEN Raised(r, "add_case", owner, << >>, c, acc)
              ELSE IF c \in Cases(data)
                   THEN Raised(r, "add_case", owner, << >>, c, 400)
              ELSE Awaiting(r, "add_case", owner, << >>, c,
                            Touch(AddCase(data, c), r), "update")]
    /\ UNCHANGED db_project
    /\ UNCHANGED engine

\* DELETE /{project_id}/cases/{case_id}: up to the call of db_update_project
delete_case(r) ==
    /\ request[r].pc = "idle"
    /\ \E owner \in BOOLEAN, c \in CaseIds :
         LET acc == Access(db_project, owner)
             data == db_project.data
         IN request' = [request EXCEPT ![r] =
              IF acc # 0 THEN Raised(r, "delete_case", owner, << >>, c, acc)
              ELSE IF c \notin Cases(data)
                   THEN Raised(r, "delete_case", owner, << >>, c, 404)
              ELSE IF OnlyCase(data)
                   THEN Raised(r, "delete_case", owner, << >>, c, 400)
              ELSE Awaiting(r, "delete_case", owner, << >>, c,
                            Touch(DelCase(data, c), r), "update")]
    /\ UNCHANGED db_project
    /\ UNCHANGED engine

\* DELETE /{project_id}: up to the call of db_delete_project
delete_project(r) ==
    /\ request[r].pc = "idle"
    /\ \E owner \in BOOLEAN :
         LET acc == Access(db_project, owner)
         IN request' = [request EXCEPT ![r] =
              IF acc # 0 THEN Raised(r, "delete_project", owner, << >>, "", acc)
              ELSE Awaiting(r, "delete_project", owner, << >>, "", NoData,
                            "delete")]
    /\ UNCHANGED db_project
    /\ UNCHANGED engine

\* database.update_project: UPDATE projects SET data = ? WHERE id = ?, commit
db_update_project(r) ==
    /\ request[r].pc = "update"
    /\ db_project' = IF db_project.exists THEN Row(request[r].data) ELSE db_project
    /\ request' = [request EXCEPT ![r].pc = "get"]
    /\ UNCHANGED engine

\* the get_project that ends database.update_project, and the response: 200
\* with the row, or 500 when the row is gone (ProjectResponse(**None))
db_get_project(r) ==
    /\ request[r].pc = "get"
    /\ request' = [request EXCEPT ![r].pc = "done", ![r].data = NoData,
                                  ![r].status = IF db_project.exists THEN 200 ELSE 500]
    /\ UNCHANGED db_project
    /\ UNCHANGED engine

\* database.delete_project: DELETE FROM projects WHERE id = ?, commit
db_delete_project(r) ==
    /\ request[r].pc = "delete"
    /\ db_project' = NoRow
    /\ request' = [request EXCEPT ![r].pc = "done", ![r].status = 200]
    /\ UNCHANGED engine

\* a project as create_project stores it, or with the second case added
ApiInit ==
    /\ project = ScenarioA
    /\ pc = "extract"
    /\ debt_tranches = << >>
    /\ cash_flows = EmptyDict
    /\ schedules = EmptyDict
    /\ cash_balance = EmptyDict
    /\ total_interest_by_year = EmptyDict
    /\ cash_interest_by_year = EmptyDict
    /\ prev_year_cash = 0
    /\ year_idx = 0
    /\ iteration = 0
    /\ prev_revolver_balance = 0
    /\ loc = NoLocals
    /\ deal_params = EmptyDict
    /\ sources_uses = EmptyDict
    /\ leverage_metrics = EmptyDict
    /\ returns = EmptyDict
    /\ result = EmptyDict
    /\ db_project \in {Row(create_empty_project_data),
                       Row(AddCase(create_empty_project_data, "downside_case"))}
    /\ request = [r \in Requests |-> Idle]

ApiNext ==
    \/ \E r \in Requests : update_project(r)
    \/ \E r \in Requests : bulk_update_project(r)
    \/ \E r \in Requests : add_case(r)
    \/ \E r \in Requests : delete_case(r)
    \/ \E r \in Requests : delete_project(r)
    \/ \E r \in Requests : db_update_project(r)
    \/ \E r \in Requests : db_get_project(r)
    \/ \E r \in Requests : db_delete_project(r)

ApiSpec == ApiInit /\ [][ApiNext]_vars

\* ================================================================= claims
\* the fixed-point loop of the current year has ended
YearClosed == pc = "store"

Within001(a, b) == Abs(a - b) * 100 <= Scale

NonRevolverLabels == {l \in DOMAIN schedules : ~schedules[l].is_revolver}

Opening(l) == schedules[l].balances[year - 1]
Closing(l) == schedules[l].balances[year]
Pik(l) == Get(schedules[l].pik_interest, year, 0)
Paid(l) == schedules[l].principal_payments[year]
Draw(l) == Get(schedules[l].revolver_draws, year, 0)

NonRevolverTotals ==
    SumSeq([i \in DOMAIN debt_tranches |->
        IF schedules[debt_tranches[i].label].is_revolver THEN 0
        ELSE Paid(debt_tranches[i].label).total])

\* C1: ending cash of a forecast year = prior ending cash (minimum cash in the
\* first year) + CFADS - the principal totals of the non-revolver tranches
\* + the revolver's draw of the year - the revolver's repayment of the year,
\* within 0.01.
C1_CashMassBalance ==
    YearClosed =>
        Within001(cash_balance[year],
                  prev_year_cash + loc.cfads - NonRevolverTotals
                    + (IF HasRevolver
                       THEN Draw(RevolverLabel) - Paid(RevolverLabel).sweep
                       ELSE 0))

\* C2: in a year where the available cash covers the mandatory amortization,
\* or where the deal has a revolver that closes below its original size,
\* ending cash is at least the minimum cash.
C2_MinimumCashKept ==
    ( /\ YearClosed
      /\ \/ loc.available_for_debt >= loc.total_mandatory
         \/ /\ HasRevolver
            /\ Closing(RevolverLabel) < schedules[RevolverLabel].original_size )
        => cash_balance[year] >= project.minimum_cash

\* C3: for every non-revolver tranche of size >= 0 (labels are unique and
\* rates >= 0 in every deal here) and forecast year the opening balance is the
\* previous closing balance (the drawn amount in the first year), the closing
\* balance is opening + PIK - (mandatory + sweep), and it is never negative.
C3_NonRevolverRollForward ==
    YearClosed =>
        \A l \in {k \in NonRevolverLabels : schedules[k].original_size >= 0} :
            /\ (year - 1) \in DOMAIN schedules[l].balances
            /\ year_idx = 0 =>
                  Opening(l) = TrancheOf(debt_tranches, l).drawn_amount
            /\ Closing(l) = Opening(l) + Pik(l) - (Paid(l).mandatory + Paid(l).sweep)
            /\ Paid(l).total = Paid(l).mandatory + Paid(l).sweep
            /\ Closing(l) >= 0

\* a second-year close where a tranche carrying PIK interest is swept
C3_Witness ==
    /\ YearClosed
    /\ year_idx = 1
    /\ \E l \in NonRevolverLabels : Pik(l) > 0 /\ Paid(l).sweep > 0
    /\ \E l \in NonRevolverLabels : Paid(l).mandatory > 0

\* C4 (as claimed): the revolver closes every year between 0 and its
\* original size.
C4_RevolverWithinSize ==
    (YearClosed /\ HasRevolver) =>
        /\ Closing(RevolverLabel) >= 0
        /\ Closing(RevolverLabel) <= schedules[RevolverLabel].original_size

\* C4 (amended): the revolver's closing balance is never negative, and it is
\* not limited by the original size: in a year with a draw it is the opening
\* balance plus the whole draw needed.
C4_RevolverNonNegative ==
    (YearClosed /\ HasRevolver) =>
        /\ Closing(RevolverLabel) >= 0
        /\ loc.rcf_draw_needed > 0 =>
              Closing(RevolverLabel) = Opening(RevolverLabel) + loc.rcf_draw_needed

\* a year that left the revolver above its original size
C4_Witness ==
    /\ YearClosed
    /\ HasRevolver
    /\ loc.rcf_draw_needed > 0
    /\ Closing(RevolverLabel) > schedules[RevolverLabel].original_size

\* C5: the revolver closes at opening + draw of the year - sweep recorded for
\* the year, whatever the number of iterations.
C5_RevolverRollForward ==
    (YearClosed /\ HasRevolver) =>
        Closing(RevolverLabel)
            = Opening(RevolverLabel) + Draw(RevolverLabel) - Paid(RevolverLabel).sweep

\* C6: in the returned schedules the revolver's principal total of a year is
\* -draw + repayment.
C6_RevolverTotal ==
    (pc = "done" /\ HasRevolver) =>
        \A i \in DOMAIN years :
            LET s == schedules[RevolverLabel]
            IN  s.principal_payments[years[i]].total
                    = -Get(s.revolver_draws, years[i], 0)
                      + s.principal_payments[years[i]].sweep

SweptLabels == {l \in NonRevolverLabels : Paid(l).sweep > 0}

AllSweeps ==
    SumSeq([i \in DOMAIN debt_tranches |-> Paid(debt_tranches[i].label).sweep])

\* C7: in a year where cash remains after the mandatory payments and nothing
\* was drawn, a non-revolver tranche is swept only if the revolver and every
\* tranche before it in (repayment seniority, label) order close at zero; no
\* swept tranche is swept beyond its balance; the sweeps sum to at most the cash
\* that remained.
C7_SweepOrder ==
    (YearClosed /\ loc.cash_after_mandatory > 0 /\ loc.rcf_draw_needed = 0) =>
        /\ \A l \in SweptLabels :
                /\ HasRevolver => Closing(RevolverLabel) = 0
                /\ \A k \in NonRevolverLabels :
                        Before(TrancheOf(debt_tranches, k), TrancheOf(debt_tranches, l))
                            => Closing(k) = 0
        /\ \A l \in SweptLabels :
                Paid(l).sweep <= Opening(l) + Pik(l) - Paid(l).mandatory
        /\ HasRevolver => Paid(RevolverLabel).sweep <= Opening(RevolverLabel)
        /\ AllSweeps <= loc.cash_after_mandatory

\* two tranches swept in one year beside a revolver, the one defined first
\* being the later one in seniority order
C7_Witness ==
    /\ YearClosed
    /\ HasRevolver
    /\ loc.cash_after_mandatory > 0
    /\ \E i, j \in DOMAIN debt_tranches :
            /\ i < j
            /\ {debt_tranches[i].label, debt_tranches[j].label} \subseteq SweptLabels
            /\ Before(debt_tranches[j], debt_tranches[i])
            /\ Closing(debt_tranches[i].label) > 0

NumericSchedule(str) ==
    str # EmptyStr /\ \A i \in DOMAIN str : str[i].suffix = ""

\* C8: for a tranche with schedule "p1/.../pn" the mandatory amortization
\* recorded for the year of index i is min(original_size * p(i+1)/100, opening
\* + PIK) when i < n and 0 when i >= n, and the closing balance is reduced by
\* it in full whether or not there is cash for it.
C8_MandatoryAmortization ==
    YearClosed =>
        \A i \in DOMAIN debt_tranches :
            LET t == debt_tranches[i]
                l == t.label
                str == t.amortization_schedule
            IN  (~schedules[l].is_revolver /\ NumericSchedule(str)) =>
                    /\ Paid(l).mandatory =
                          IF year_idx < Len(str)
                          THEN Min((t.original_size * str[year_idx + 1].digits) \div 100,
                                   Opening(l) + Pik(l))
                          ELSE 0
                    /\ Closing(l) + Paid(l).sweep
                          = Opening(l) + Pik(l) - Paid(l).mandatory

\* a mandatory amount recorded in a year without the cash for it
C8_Witness ==
    /\ YearClosed
    /\ loc.available_for_debt < loc.total_mandatory
    /\ \E i \in DOMAIN debt_tranches :
            /\ NumericSchedule(debt_tranches[i].amortization_schedule)
            /\ Paid(debt_tranches[i].label).mandatory > 0
            /\ Closing(debt_tranches[i].label)
                  < Opening(debt_tranches[i].label) + Pik(debt_tranches[i].label)

\* C9: when the cash for debt service does not cover the mandatory amounts
\* and a revolver exists, the shortfalls (what is due less the cash left, if
\* any) are drawn on the revolver: it closes at opening + the shortfalls,
\* the same sum is the recorded draw, and nothing is swept that year.
C9_ShortfallDrawn ==
    (YearClosed /\ HasRevolver /\ loc.available_for_debt < loc.total_mandatory) =>
        LET shortfalls == loc.total_mandatory - Max(0, loc.available_for_debt)
        IN  /\ Closing(RevolverLabel) = Opening(RevolverLabel) + shortfalls
            /\ Draw(RevolverLabel) = shortfalls
            /\ \A l \in DOMAIN schedules : Paid(l).sweep = 0

\* a shortfall that is part of a mandatory amount, the rest being paid in cash
C9_Witness ==
    /\ YearClosed
    /\ HasRevolver
    /\ loc.available_for_debt > 0
    /\ loc.available_for_debt < loc.total_mandatory
    /\ Draw(RevolverLabel) > 0

\* C10: a tranche given amortization_rate r > 0 and no schedule string has
\* mandatory amortization min(original_size * r, balance) in every forecast
\* year.
C10_UniformRateAmortizes ==
    YearClosed =>
        \A i \in DOMAIN project.tranches :
            LET td == project.tranches[i]
                l == LabelOf(td)
            IN  ( /\ Field(td, "amortization_rate", 0) > 0
                  /\ Field(td, "amortization_schedule", EmptyStr) = EmptyStr
                  /\ Field(td, "amortization", EmptyStr) = EmptyStr
                  /\ ~schedules[l].is_revolver ) =>
                    Paid(l).mandatory =
                        Min((OriginalSizeOf(td) * td["amortization_rate"]) \div 100,
                            Opening(l) + Pik(l))

\* ------------------------------------------------------------ C11 .. C20
Returned == pc = "returned"
Succeeded == Returned /\ result.success
Failed == Returned /\ ~result.success

\* the result is exactly {success: false, case_id, error}
IsFailureResult(r) ==
    /\ DOMAIN r = {"success", "case_id", "error"}
    /\ r.success = FALSE
    /\ r.case_id = project.case_id

SuccessSections ==
    {"sources_uses", "annual_cash_flows", "debt_schedules", "cash_balance",
     "leverage_metrics", "returns", "summary"}

InputTranches == DealField(project, "tranches", << >>)

\* C11: with equity computed as the plug, total sources = total uses within
\* 0.01, total uses = purchase price + transaction fee (price x fe / 100)
\* + the sum of the tranche financing fees + minimum cash, equity = total
\* uses - the sum of the drawn amounts, and validation.balanced is true.
C11_SourcesBalanceUses ==
    DOMAIN sources_uses # {} =>
        LET total_uses == sources_uses.uses["total_uses"]
        IN  /\ Within001(sources_uses.sources["total_sources"], total_uses)
            /\ total_uses =
                   deal_params.purchase_price
                   + PctOf(deal_params.purchase_price, deal_params.entry_fee_percentage)
                   + TotalFinancingFees(debt_tranches)
                   + deal_params.minimum_cash
            /\ sources_uses.sources["equity"] = total_uses - TotalDebt(debt_tranches)
            /\ sources_uses.validation.balanced

\* the phases of a run that has not returned, each with the guard of its step
Running ==
    \/ pc \in {"extract", "validate", "sources_uses", "cash_flows", "schedules",
                "year", "store", "paydown", "done", "leverage", "returns"}
    \/ pc = "iterate" /\ iteration < max_iterations

\* C12: run_lbo_analysis is total and never raises: a run that has not
\* returned can always take its next step, and the only end of a run is a
\* result; a failed run (validation or an exception in any phase) returns
\* exactly {success: false, case_id, error}; a successful run returns
\* success = true with all seven sections.
C12_TotalFunction ==
    /\ Returned \/ Running
    /\ Returned =>
          \/ IsFailureResult(result)
          \/ /\ result.success = TRUE
             /\ result.case_id = project.case_id
             /\ SuccessSections \subseteq DOMAIN result
             /\ "error" \notin DOMAIN result
    /\ ~Returned => DOMAIN result = {}

\* a run that failed by an exception raised inside the analysis
C12_Witness ==
    /\ Failed
    /\ result.error = "list index out of range"
    /\ DOMAIN sources_uses # {}

MissingCase == project.case_id \notin CasesInDocument

EbitdaMissingEmptyOrZero ==
    \/ project.ebitda_series \in {"missing", "empty"}
    \/ /\ project.deal_ebitda = 0
       /\ \A y \in DOMAIN project.ebitda : project.ebitda[y] = 0

NoEntryMultiple == Field(project.entry_valuation, "multiple", 0) = 0

ExitNotAfterDeal == project.exit_year <= DealYear

WaterfallStarted ==
    pc \in {"year", "iterate", "store", "paydown", "done", "leverage", "returns"}

\* C13: a case id that is not in the document, an EBITDA series that is
\* missing, empty or all zero, an entry multiple of zero, or an exit year
\* that is not after the deal year: the run returns the failure result and
\* no schedule, leverage or return is computed.
C13_InvalidDealsFail ==
    (MissingCase \/ EbitdaMissingEmptyOrZero \/ NoEntryMultiple \/ ExitNotAfterDeal)
        => /\ ~WaterfallStarted
           /\ Returned => IsFailureResult(result)

\* an otherwise valid deal whose exit year is the deal year has failed
C13_Witness ==
    /\ Failed
    /\ ExitNotAfterDeal
    /\ ~MissingCase /\ ~EbitdaMissingEmptyOrZero /\ ~NoEntryMultiple
    /\ project.deal_ebitda > 0

NonPositiveSize(td) == OriginalSizeOf(td) <= 0

\* C14: a deal with a tranche whose size is zero, negative or missing is
\* rejected: the run returns the failure result.
C14_NonPositiveSizeRejected ==
    (Returned /\ \E i \in DOMAIN InputTranches : NonPositiveSize(InputTranches[i]))
        => IsFailureResult(result)

Unparseable(str) == \E i \in DOMAIN str : str[i].suffix # ""

\* C15: a deal with a tranche whose amortization schedule string has a part
\* that is not a number is rejected: the run returns the failure result.
C15_UnparseableScheduleRejected ==
    (Returned /\ \E i \in DOMAIN InputTranches :
                    Unparseable(AmortizationOf(InputTranches[i])))
        => IsFailureResult(result)

\* one iteration of the loop is taken
IterateStep == pc = "iterate" /\ pc' \in {"iterate", "store"}

RevolverClosing(sch) == Get(sch[RevolverLabel].balances, year, 0)

\* the steps a year of the waterfall still has to take, counted generously
\* (the head of the loop, at most max_iterations iterations, the store)
YearBudget == max_iterations + 3

\* no deal here runs past the default exit year
HorizonBound == Max(NumYears, ExitYearDefault - DealYear)

\* an upper bound on the number of steps the run can still take
StepsLeft ==
    LET years_after == Len(years) - 1 - year_idx
        after_loop == 5
        top == after_loop + HorizonBound * YearBudget
    IN  CASE pc = "returned" -> 0
          [] pc = "returns" -> 1
          [] pc = "leverage" -> 2
          [] pc = "done" -> 3
          [] pc = "paydown" -> 4
          [] pc = "store" -> after_loop + years_after * YearBudget
          [] pc = "iterate" ->
                after_loop + years_after * YearBudget + (max_iterations - iteration) + 1
          [] pc = "year" -> after_loop + years_after * YearBudget + max_iterations + 2
          [] pc = "schedules" -> top
          [] pc = "cash_flows" -> top + 1
          [] pc = "sources_uses" -> top + 2
          [] pc = "validate" -> top + 3
          [] pc = "extract" -> top + 4

\* C16: the waterfall terminates.  Every step of a run lowers a bound on the
\* steps that are left, so no run goes on for ever.  The loop of a year runs
\* at most 10 iterations, exactly one without a revolver; from the second
\* iteration on it stops when the revolver's closing balance moved by less
\* than 0.01 since the iteration before; the tenth iteration ends the loop
\* with its values and no error; the years are taken once each in ascending
\* order.
C16_WaterfallTerminates ==
    /\ [](StepsLeft >= 0 /\ iteration <= max_iterations)
    /\ []((pc = "store" /\ ~HasRevolver) => iteration = 0)
    /\ [][StepsLeft' < StepsLeft]_vars
    /\ [][IterateStep =>
            /\ iteration' \in {iteration, iteration + 1}
            /\ (/\ HasRevolver
                /\ iteration >= 1
                /\ Abs(RevolverClosing(schedules') - RevolverClosing(schedules))
                     * 100 < Scale) => pc' = "store"
            /\ iteration = max_iterations - 1 =>
                  /\ pc' = "store"
                  /\ year \in DOMAIN cash_balance'
                  /\ result' = result]_vars
    /\ [][/\ year_idx' \in {year_idx, year_idx + 1}
          /\ year_idx' = year_idx + 1 => (pc = "store" /\ pc' = "year")
          /\ (pc # "year" /\ pc' = "year") => pc \in {"schedules", "store"}]_vars

\* a year whose loop ended at the tenth iteration without converging
C16_Witness ==
    /\ pc = "store"
    /\ iteration = max_iterations
    /\ HasRevolver

\* C17: the re-tax step is idempotent: applied again, with the same interest
\* schedules, to its own output it changes nothing; and after it each year
\* has |cash_taxes| = max(0, (EBIT - total interest) x t),
\* fcf = unlevered_fcf - cash interest and cfads = fcf.
C17_RetaxIdempotent ==
    pc = "leverage" =>
        /\ update_with_interest(cash_flows, total_interest_by_year,
                                cash_interest_by_year, deal_params.tax_rate)
             = cash_flows
        /\ \A y \in DOMAIN cash_flows :
             LET cf == cash_flows[y]
             IN  /\ Abs(cf.cash_taxes) =
                        Max(0, PctOf(cf.ebit - total_interest_by_year[y],
                                     deal_params.tax_rate))
                 /\ cf.fcf = cf.unlevered_fcf - cash_interest_by_year[y]
                 /\ cf.cfads = cf.fcf

\* a year with cash interest whose taxes the re-tax step lowered but left
\* positive
C17_Witness ==
    /\ pc = "leverage"
    /\ \E y \in DOMAIN cash_flows :
         /\ cash_interest_by_year[y] > 0
         /\ cash_flows[y].cash_taxes < 0
         /\ Abs(cash_flows[y].cash_taxes)
              < PctOf(cash_flows[y].ebit, deal_params.tax_rate)

ForecastYearSet == DOMAIN cash_flows

PositiveYears == {y \in ForecastYearSet : cash_flows[y].ebitda > 0}

\* C18: exit EBITDA is the EBITDA of the final forecast year; if that is
\* zero, the EBITDA of the latest earlier forecast year with positive
\* EBITDA; if no forecast year has positive EBITDA, MOIC and IRR are 0.
C18_ExitEbitdaSelection ==
    Succeeded =>
        LET final == cash_flows[years[Len(years)]].ebitda
        IN  /\ final # 0 => returns.exit_ebitda = final
            /\ (final = 0 /\ PositiveYears # {}) =>
                  \E y \in PositiveYears :
                     /\ \A z \in PositiveYears : z <= y
                     /\ returns.exit_ebitda = cash_flows[y].ebitda
            /\ PositiveYears = {} =>
                  /\ result.returns.moic.num = 0
                  /\ result.returns.irr.num = result.returns.irr.den

\* C19: with the exit valuation method "hardcode" the exit enterprise value
\* of the result is the hardcoded exit value of the input, otherwise it is
\* exit EBITDA x exit multiple; exit fees = EV x fx / 100 and exit proceeds
\* = EV + final ending cash - final total debt - exit fees.
C19_ExitValue ==
    Succeeded =>
        LET r == result.returns
            final_year == years[Len(years)]
        IN  /\ r.exit_enterprise_value =
                   IF Field(project.exit_valuation, "method", "multiple") = "hardcode"
                   THEN Field(project.exit_valuation, "hardcoded_value", 0)
                   ELSE returns.exit_ebitda
                            * Field(project.exit_valuation, "multiple", 0)
            /\ r.exit_fees = PctOf(r.exit_enterprise_value,
                                   deal_params.exit_fee_percentage)
            /\ r.exit_proceeds =
                   r.exit_enterprise_value + cash_balance[final_year]
                   - get_total_debt_balance(schedules, final_year) - r.exit_fees

\* the ratios of a successful result
ResultRatios ==
    {result.sources_uses.details.debt_to_equity_ratio,
     result.sources_uses.details.equity_percentage,
     result.sources_uses.details.debt_percentage,
     result.returns.moic, result.summary.moic, result.summary.final_leverage}
    \cup {result.leverage_metrics[y].net_leverage : y \in DOMAIN result.leverage_metrics}
    \cup {result.leverage_metrics[y].gross_leverage : y \in DOMAIN result.leverage_metrics}

\* C20: no ratio of the result has a zero or negative denominator, and the
\* guarded value stands in its place: net and gross leverage are 0 in a year
\* with EBITDA <= 0; MOIC and IRR are 0 when entry equity <= 0; IRR is 0
\* when MOIC <= 0 or the holding period <= 0; debt/equity is 0 when equity
\* <= 0 and the two percentages are 0 when total sources <= 0.
C20_GuardedRatios ==
    Succeeded =>
        LET r == result.returns
            su == result.sources_uses
        IN  /\ \A q \in ResultRatios : q.den > 0
            /\ r.irr.den > 0 /\ r.irr.root > 0
            /\ \A y \in DOMAIN result.leverage_metrics :
                 result.annual_cash_flows[y].ebitda <= 0 =>
                    /\ result.leverage_metrics[y].net_leverage = Zero
                    /\ result.leverage_metrics[y].gross_leverage = Zero
            /\ r.entry_equity <= 0 => (r.moic = Zero /\ r.irr = ZeroIrr)
            /\ (r.moic.num <= 0 \/ r.holding_period <= 0) => r.irr = ZeroIrr
            /\ su.sources["equity"] <= 0 => su.details.debt_to_equity_ratio = Zero
            /\ su.sources["total_sources"] <= 0 =>
                  /\ su.details.equity_percentage = Zero
                  /\ su.details.debt_percentage = Zero

\* a successful result with entry equity <= 0, positive exit proceeds and a
\* forecast year without EBITDA
C20_Witness ==
    /\ Succeeded
    /\ result.returns.entry_equity <= 0
    /\ result.returns.exit_proceeds > 0
    /\ \E y \in DOMAIN result.leverage_metrics :
         /\ result.annual_cash_flows[y].ebitda = 0
         /\ result.leverage_metrics[y].total_debt > 0

\* ---------------------------------------------------------------- scenarios
\* n / d = a / b, both in lowest terms
SameRatio(q, a, b) ==
    LET g == Gcd(Abs(q.num), Abs(q.den))
    IN  g # 0 /\ q.num \div g = a /\ q.den \div g = b

\* C21: Scenario A yields purchase price 200, entry equity 200, zero
\* interest in every year, cash taxes of 0.25 x EBITDA each year, ending cash
\* in 2028 of 115.5, exit EV 296, exit proceeds 411.5 and MOIC 2.0575
\* (= 823 / 400).
C21_ScenarioA ==
    (Succeeded /\ project = ScenarioA) =>
        /\ result.sources_uses.uses["purchase_price"] = 200 * S
        /\ result.returns.entry_equity = 200 * S
        /\ \A y \in DOMAIN result.annual_cash_flows :
              LET cf == result.annual_cash_flows[y]
              IN  /\ cf.cash_interest = 0
                  /\ Get(total_interest_by_year, y, 0) = 0
                  /\ -cf.cash_taxes = PctOf(cf.ebitda, 25)
        /\ result.cash_balance[2028] * 2 = 231 * S
        /\ result.returns.exit_enterprise_value = 296 * S
        /\ result.returns.exit_proceeds * 2 = 823 * S
        /\ SameRatio(result.returns.moic, 823, 400)

\* -------------------------------------------------------- the debt at exit
\* the schedules are complete and the cash flows are still the first pass
SchedulesReturned == pc = "done"

\* the CFADS the waterfall used for year y, from the interest it stored
WaterfallCfads(y) ==
    Cfads(cash_flows[y], cash_interest_by_year[y],
          total_interest_by_year[y] - cash_interest_by_year[y])

MandatoryOf(y) ==
    SumFn([l \in NonRevolverLabels |-> schedules[l].principal_payments[y].mandatory])

NoPik == \A i \in DOMAIN debt_tranches : debt_tranches[i].pik_interest_rate = 0

DebtAtEntry == SumFn([l \in DOMAIN schedules |-> schedules[l].starting_balance])

DebtAtExit == get_total_debt_balance(schedules, years[Len(years)])

CfadsCoversMandatory == \A y \in DOMAIN cash_flows : WaterfallCfads(y) > MandatoryOf(y)

\* C22 (as claimed): with no PIK, no revolver, the sweep enabled and CFADS >
\* mandatory in every forecast year, total debt at exit <= total debt at
\* entry, and strictly less if any year had CFADS > mandatory.
C22_DebtStrictlyFalls ==
    (SchedulesReturned /\ NoPik /\ ~HasRevolver /\ CfadsCoversMandatory) =>
        /\ DebtAtExit <= DebtAtEntry
        /\ (\E y \in DOMAIN cash_flows : WaterfallCfads(y) > MandatoryOf(y))
              => DebtAtExit < DebtAtEntry

\* C22 (amended): under the same conditions total debt at exit <= total debt
\* at entry, and strictly less if total debt at entry is positive.
C22_DebtFalls ==
    (SchedulesReturned /\ NoPik /\ ~HasRevolver /\ CfadsCoversMandatory) =>
        /\ DebtAtExit <= DebtAtEntry
        /\ DebtAtEntry > 0 => DebtAtExit < DebtAtEntry

\* a deal of two tranches that is paid down in part
C22_Witness ==
    /\ SchedulesReturned /\ NoPik /\ ~HasRevolver /\ CfadsCoversMandatory
    /\ Len(debt_tranches) = 2
    /\ 0 < DebtAtExit
    /\ DebtAtExit < DebtAtEntry

\* C23: in a successful result every tranche, the revolver and a tranche at
\* zero balance included, has for every forecast year a recorded closing
\* balance, cash interest, PIK interest and a principal-payment triple
\* {mandatory, sweep, total}, with total = mandatory + sweep for a
\* non-revolver tranche.
C23_ScheduleComplete ==
    Succeeded =>
        \A l \in DOMAIN result.debt_schedules :
            \A y \in DOMAIN result.annual_cash_flows :
                LET s == result.debt_schedules[l]
                IN  /\ y \in DOMAIN s.balances
                    /\ y \in DOMAIN s.interest_expense
                    /\ y \in DOMAIN s.pik_interest
                    /\ y \in DOMAIN s.principal_payments
                    /\ DOMAIN s.principal_payments[y] = {"mandatory", "sweep", "total"}
                    /\ ~s.is_revolver =>
                          s.principal_payments[y].total
                              = s.principal_payments[y].mandatory
                                + s.principal_payments[y].sweep

\* ---------------------------------------------------------------- Scenario D
MezzDeal == InputTranches = << TrancheMezz >>

Mezz == result.debt_schedules["Mezz"]

\* 50 compounded at 5% for i years
RECURSIVE Compounded(_)
Compounded(i) ==
    IF i = 0 THEN 50 * S
    ELSE Compounded(i - 1) + PctOf(Compounded(i - 1), 5)

\* C24 (as claimed): the bullet tranche "Mezz" of size 50 with 5% cash and
\* 5% PIK interest has year-1 PIK interest 2.5, opens year 2 at 52.5, has
\* year-2 PIK interest 2.625, and so on by compounding, whatever the sweep.
C24_PikCompounds ==
    (Succeeded /\ MezzDeal) =>
        \A i \in DOMAIN years :
            /\ Get(Mezz.pik_interest, years[i], 0) = PctOf(Compounded(i - 1), 5)
            /\ Mezz.balances[years[i]] = Compounded(i)

\* C24 (amended): year-1 PIK interest is 2.5 whatever the sweep; every year's
\* PIK interest is 5% of the balance the year opens with, which is the
\* balance the year before closed with: opening + PIK - principal paid; in
\* the years before any principal is paid the balance compounds (52.5 after
\* year 1, PIK 2.625 in year 2, and so on).
C24_PikOnOpening ==
    (Succeeded /\ MezzDeal) =>
        /\ Mezz.pik_interest[years[1]] * 2 = 5 * S
        /\ \A i \in DOMAIN years :
              LET y == years[i]
                  paid == Mezz.principal_payments[y].total
              IN  /\ Get(Mezz.pik_interest, y, 0) = PctOf(Mezz.balances[y - 1], 5)
                  /\ Mezz.balances[y]
                        = Mezz.balances[y - 1] + Get(Mezz.pik_interest, y, 0) - paid
                  /\ (\A j \in 1..i : Mezz.principal_payments[years[j]].total = 0)
                        => Mezz.balances[y] = Compounded(i)

\* Scenario D with a sweep in year 1 and PIK interest on what is left in year 2
C24_Witness ==
    /\ Succeeded /\ MezzDeal
    /\ Mezz.principal_payments[years[1]].sweep > 0
    /\ Get(Mezz.pik_interest, years[2], 0) > 0

\* ------------------------------------------------------------------- EBIT
\* the first-pass cash flows, before the waterfall changes anything
FirstPass == pc = "schedules" /\ DOMAIN cash_flows # {}

EbitValuesSupplied ==
    /\ Field(project, "ebit_series", "missing") = "present"
    /\ DOMAIN project.ebit # {}

\* C25: when the case supplies no EBIT values (the series is missing or has
\* no entries), ebit(y) = ebitda(y) - d_and_a(y) for every forecast year and
\* the first-pass cash taxes are max(0, ebit(y) x t); when EBIT values are
\* supplied, ebit(y) is the value of the series for y.
C25_EbitDerived ==
    FirstPass =>
        \A y \in DOMAIN cash_flows :
            LET cf == cash_flows[y]
            IN  IF EbitValuesSupplied
                THEN cf.ebit = project.ebit[y]
                ELSE /\ cf.ebit = cf.ebitda - cf.d_and_a
                     /\ -cf.cash_taxes = Max(0, PctOf(cf.ebit, deal_params.tax_rate))

\* ---------------------------------------------------------------- Scenario E
\* C26: with a user-specified equity of 50 where the plug would be 80,
\* sources and uses report balanced = false with imbalance 30 and do not
\* abort, and the analysis completes with the supplied equity (50) as entry
\* equity for MOIC and IRR.
C26_SuppliedEquity ==
    (Returned /\ project = ScenarioE) =>
        /\ result.success
        /\ ~result.sources_uses.validation.balanced
        /\ result.sources_uses.validation.imbalance = 30 * S
        /\ result.sources_uses.sources["equity"] = project.equity_injection
        /\ result.returns.entry_equity = project.equity_injection
        /\ result.returns.moic
              = Div(result.returns.exit_proceeds, project.equity_injection)
        /\ result.returns.irr.den = project.equity_injection

\* ------------------------------------------------- the taxes of the waterfall
\* the taxes the last iteration of the year took out of its CFADS
TaxesUsed ==
    LET cf == cash_flows[year]
    IN  cf.ebitda - loc.total_cash_interest + cf.capex + cf.change_wc - loc.cfads

\* the step that re-taxes the cash flows
RetaxStep == pc = "done" /\ pc' = "leverage"

\* C28: the taxes used inside the waterfall for a year are
\* max(0, (EBIT - total interest) x t) with the tax rate t of the deal, also
\* when EBIT <= 0, and the CFADS the waterfall used for the year is the cfads
\* of annual_cash_flows after the re-tax step.
C28_WaterfallTaxes ==
    /\ [](YearClosed =>
            TaxesUsed = Max(0, PctOf(cash_flows[year].ebit
                                        - (loc.total_cash_interest
                                           + loc.total_pik_interest),
                                     deal_params.tax_rate)))
    /\ [](YearClosed =>
            loc.cfads = UpdateYear(cash_flows[year],
                                   loc.total_cash_interest + loc.total_pik_interest,
                                   loc.total_cash_interest,
                                   deal_params.tax_rate).cfads)
    /\ [][RetaxStep =>
            \A y \in DOMAIN cash_flows : cash_flows'[y].cfads = WaterfallCfads(y)]_vars

\* re-taxed cash flows with interest in a year of EBIT <= 0 and with
\* interest and taxes in a year of EBIT > 0
C28_Witness ==
    /\ pc = "leverage"
    /\ \E y \in DOMAIN cash_flows :
          cash_flows[y].ebit <= 0 /\ total_interest_by_year[y] > 0
    /\ \E y \in DOMAIN cash_flows :
          /\ cash_flows[y].ebit > 0
          /\ total_interest_by_year[y] > 0
          /\ cash_flows[y].cash_taxes < 0

\* ------------------------------------------------------- the complete sweep
\* C29: without a revolver, in a year in which cash remains after the
\* mandatory amortization (available cash > total mandatory), either every
\* non-revolver tranche closes the year at zero or the ending cash is exactly
\* the minimum cash.
C29_SweepComplete ==
    (YearClosed /\ ~HasRevolver /\ loc.available_for_debt > loc.total_mandatory) =>
        \/ \A l \in NonRevolverLabels : Closing(l) = 0
        \/ cash_balance[year] = deal_params.minimum_cash

\* the same, on the deals whose tranches all have a size >= 0
C29_SweepCompleteSized ==
    (\A i \in DOMAIN debt_tranches : debt_tranches[i].original_size >= 0)
        => C29_SweepComplete


\* ------------------------------------------------------------ HTTP claims
\* request r has been answered with status st
Answered(r, kind, st) ==
    /\ request[r].pc = "done"
    /\ request[r].kind = kind
    /\ request[r].status = st

\* two documents agree on everything but the case c and meta.last_modified
SameButCase(d1, d2, c) ==
    \A n \in Nodes :
        n # LastModified /\ ~IsPrefix(CasePath(c), n) => d1[n] = d2[n]

\* the owner's delete-case request r starts on a project whose only case is
\* the one it names
DeletesOnlyCase(r) ==
    /\ request[r].pc = "idle"
    /\ request'[r].kind = "delete_case"
    /\ request'[r].owner
    /\ db_project.exists
    /\ Cases(db_project.data) = {request'[r].case_id}

\* the delete-case request r writes, and nothing was written since it read
DeleteWrites(r) ==
    /\ request[r].pc = "update"
    /\ request[r].kind = "delete_case"
    /\ request'[r].pc = "get"
    /\ db_project = Row(request[r].seen)

\* C27: deleting the only case of a project is answered with 400 and changes
\* nothing; a project that exists always has at least one case; and a
\* delete-case request that runs without another write in between removes the
\* case it names and no other, leaving the rest of the document as it was.
C27_OnlyCaseKept ==
    /\ [](db_project.exists => Cases(db_project.data) # {})
    /\ [][\A r \in Requests :
            DeletesOnlyCase(r) =>
                /\ request'[r].pc = "done"
                /\ request'[r].status = 400
                /\ db_project' = db_project]_vars
    /\ [][\A r \in Requests :
            DeleteWrites(r) =>
                /\ db_project'.exists
                /\ Cases(db_project'.data)
                     = Cases(db_project.data) \ {request[r].case_id}
                /\ SameButCase(db_project'.data, db_project.data,
                               request[r].case_id)]_vars

\* one request deleted one of two cases, another was refused the last one
C27_Witness ==
    /\ \E r1, r2 \in Requests :
         /\ Answered(r1, "delete_case", 200)
         /\ Answered(r2, "delete_case", 400)
         /\ request[r2].owner
         /\ Cases(request[r1].seen) = CaseIds
         /\ Cardinality(Cases(request[r2].seen)) = 1
    /\ db_project.exists
    /\ Cardinality(Cases(db_project.data)) = 1

\* r is a completed update request (PATCH or bulk PATCH) of the owner
Updated(r) ==
    /\ request[r].pc = "done"
    /\ request[r].kind \in {"patch", "bulk"}
    /\ request[r].owner
    /\ request[r].status = 200

PathsOf(r) == {request[r].paths[i] : i \in DOMAIN request[r].paths}

\* no path of the one request is a path of the other, or lies under one
Independent(r1, r2) ==
    \A p \in PathsOf(r1), q \in PathsOf(r2) : ~IsPrefix(p, q) /\ ~IsPrefix(q, p)

\* C30: when two update requests of the owner on independent paths have both
\* completed, and no other request was sent, the stored document holds the
\* value of each at every path it set.
C30_BothUpdatesStored ==
    \A r1, r2 \in Requests :
        ( /\ r1 # r2
          /\ Updated(r1)
          /\ Updated(r2)
          /\ Independent(r1, r2)
          /\ \A o \in Requests \ {r1, r2} : request[o].pc = "idle" )
        => /\ db_project.exists
           /\ \A p \in PathsOf(r1) : db_project.data[p] = Value(r1)
           /\ \A p \in PathsOf(r2) : db_project.data[p] = Value(r2)

\* the same two requests, one wholly after the other: the second read what the
\* first had written
C30_Serial ==
    \A r1, r2 \in Requests :
        ( /\ r1 # r2
          /\ Updated(r1)
          /\ Updated(r2)
          /\ Independent(r1, r2)
          /\ \A p \in PathsOf(r1) : request[r2].seen[p] = Value(r1)
          /\ \A o \in Requests \ {r1, r2} : request[o].pc = "idle" )
        => /\ db_project.exists
           /\ \A p \in PathsOf(r1) : db_project.data[p] = Value(r1)
           /\ \A p \in PathsOf(r2) : db_project.data[p] = Value(r2)

====
